---- MODULE Spec2Model ----
(***************************************************************************)
(* apyxl: the Rust front-end parser (apyxl/src/parser/rust.rs) and the     *)
(* model builder it drives.  Text is a sequence of one-character strings;  *)
(* every grammar rule is an operator P(s, i) that reads s from index i     *)
(* (1-based) and returns [ok, pos, val]: pos is the index of the first     *)
(* character the rule did not consume.  A failed rule consumes nothing.    *)
(***************************************************************************)
EXTENDS Integers, Sequences, FiniteSets, TLC

VARIABLES
    config,           \* parser::Config.user_types: sequence of [parse, name]
    data,             \* the text handed to a grammar rule
    rule,             \* which grammar rule is applied to data
    output,           \* what the rule returned
    input,            \* Input::chunks(): sequence of [path, data]
    idx,              \* position of the `for (chunk, data)` loop of Rust::parse
    pc,               \* position inside the loop body
    namespace_stack,  \* Builder: the active nesting stack
    api,              \* Builder: the growing tree (root namespace)
    children,         \* the children parsed from the current chunk
    result,           \* what Rust::parse returned: "none", "ok", "err"
    view,             \* view::Namespace in use: [target, xforms]
    op,               \* the view operation called last
    lookup_id,        \* the EntityId handed to it
    found,            \* what it returned
    buffer,           \* output::Buffer: [data]
    calls             \* the calls made on the buffer: sequence of [op, arg, ret]

vars == <<config, data, rule, output, input, idx, pc, namespace_stack, api,
          children, result, view, op, lookup_id, found,
          buffer, calls>>

(***************************************************************************)
(* Characters and the chumsky primitives.                                  *)
(***************************************************************************)
Lower == {"a","b","c","d","e","f","g","h","i","j","k","l","m",
          "n","o","p","q","r","s","t","u","v","w","x","y","z"}
Upper == {"A","B","C","D","E","F","G","H","I","J","K","L","M",
          "N","O","P","Q","R","S","T","U","V","W","X","Y","Z"}
Digit == {"0","1","2","3","4","5","6","7","8","9"}
\* char::is_whitespace: the characters with the Unicode White_Space
\* property.  A character that has no string escape is written as its
\* code point.
Whitespace == {" ", "\n", "\t", "\r", "\f", "U+000B", "U+0085", "U+00A0",
               "U+1680", "U+2000", "U+2001", "U+2002", "U+2003", "U+2004",
               "U+2005", "U+2006", "U+2007", "U+2008", "U+2009", "U+200A",
               "U+2028", "U+2029", "U+202F", "U+205F", "U+3000"}

IsAsciiAlphabetic(c) == c \in Lower \cup Upper
IsAsciiAlphanumeric(c) == c \in Lower \cup Upper \cup Digit

Ok(p, v) == [ok |-> TRUE, pos |-> p, val |-> v]
Err(p) == [ok |-> FALSE, pos |-> p, val |-> <<>>]

\* a.then(b) is written Then(a, i, LAMBDA r : b) inside each rule: b continues
\* from the result r of a, and the rule that started at i fails when a does.

\* a.or(b): b is tried, from the same position, only when a fails
Or(a, b) == IF a.ok THEN a ELSE b

\* just(lit)
Just(lit, s, i) ==
    IF i + Len(lit) - 1 <= Len(s) /\ SubSeq(s, i, i + Len(lit) - 1) = lit
    THEN Ok(i + Len(lit), lit)
    ELSE Err(i)

\* the index of the first character at or after i that is not in `set`
RECURSIVE SkipWhile(_, _, _)
SkipWhile(set, s, i) ==
    IF i <= Len(s) /\ s[i] \in set THEN SkipWhile(set, s, i + 1) ELSE i

\* text::whitespace(): zero or more whitespace characters
SkipWs(s, i) == SkipWhile(Whitespace, s, i)

\* text::whitespace().at_least(1)
Whitespace1(s, i) == IF SkipWs(s, i) > i THEN Ok(SkipWs(s, i), <<>>) ELSE Err(i)

\* X.padded(), given the result of X read at SkipWs(s, i)
Padded(s, i, r) == IF r.ok THEN Ok(SkipWs(s, r.pos), r.val) ELSE Err(i)

\* just(lit).padded()
JustPadded(lit, s, i) == Padded(s, i, Just(lit, s, SkipWs(s, i)))

\* text::ident(): [A-Za-z_][A-Za-z0-9_]*
Ident(s, i) ==
    IF i <= Len(s) /\ (IsAsciiAlphabetic(s[i]) \/ s[i] = "_")
    THEN LET e == SkipWhile(Lower \cup Upper \cup Digit \cup {"_"}, s, i + 1)
         IN  Ok(e, SubSeq(s, i, e - 1))
    ELSE Err(i)

\* text::keyword(kw): an identifier that is exactly kw
Keyword(kw, s, i) ==
    LET Then(r, j, F(_)) == IF r.ok THEN F(r) ELSE Err(j) IN
    Then(Ident(s, i), i, LAMBDA r : IF r.val = kw THEN Ok(r.pos, kw) ELSE Err(i))

\* end()
End(s, i) == IF i = Len(s) + 1 THEN Ok(i, <<>>) ELSE Err(i)

\* P.parse(s): the rule must consume the whole text
ParseAll(s, r) == IF r.ok /\ r.pos = Len(s) + 1 THEN Ok(r.pos, r.val) ELSE Err(1)

\* str::trim
RECURSIVE TrimEnd(_)
TrimEnd(t) ==
    IF Len(t) > 0 /\ t[Len(t)] \in Whitespace THEN TrimEnd(SubSeq(t, 1, Len(t) - 1)) ELSE t

Trim(t) == LET b == SkipWs(t, 1) IN TrimEnd(SubSeq(t, b, Len(t)))

(***************************************************************************)
(* Comments.                                                               *)
(***************************************************************************)
\* the index of the first "\n" at or after i, or Len(s) + 1
RECURSIVE UntilNewline(_, _)
UntilNewline(s, i) ==
    IF i <= Len(s) /\ s[i] # "\n" THEN UntilNewline(s, i + 1) ELSE i

\* the index of the first "*/" at or after i, or Len(s) + 1
RECURSIVE UntilBlockEnd(_, _)
UntilBlockEnd(s, i) ==
    IF i > Len(s) THEN i
    ELSE IF Just(<<"*", "/">>, s, i).ok THEN i
    ELSE UntilBlockEnd(s, i + 1)

line_comment(s, i) ==
    IF Just(<<"/", "/">>, s, i).ok
    THEN LET e == UntilNewline(s, i + 2) IN Ok(e, Trim(SubSeq(s, i + 2, e - 1)))
    ELSE Err(i)

block_comment(s, i) ==
    IF Just(<<"/", "*">>, s, i).ok
    THEN LET e == UntilBlockEnd(s, i + 2)
         IN  IF e <= Len(s) THEN Ok(e + 2, Trim(SubSeq(s, i + 2, e - 1))) ELSE Err(i)
    ELSE Err(i)

comment(s, i) == Or(line_comment(s, i), block_comment(s, i))

\* comment().padded()
CommentPadded(s, i) == Padded(s, i, comment(s, SkipWs(s, i)))

\* comment().padded().repeated(): only the end position matters to callers
RECURSIVE multi_comment(_, _)
multi_comment(s, i) ==
    LET Then(r, j, F(_)) == IF r.ok THEN F(r) ELSE Err(j) IN
    Or(Then(CommentPadded(s, i), i, LAMBDA c : multi_comment(s, c.pos)), Ok(i, <<>>))

(***************************************************************************)
(* expr_block: the rule that skips an RPC body.                            *)
(***************************************************************************)
Comment(t) == [kind |-> "Comment", text |-> t, nested |-> <<>>]
Body(t) == [kind |-> "Body", text |-> t, nested |-> <<>>]
Nested(b) == [kind |-> "Nested", text |-> <<>>, nested |-> b]

\* none_of("{}").repeated().at_least(1).slice().map(str::trim)
BodyText(s, i) ==
    LET e == SkipWhile({s[k] : k \in 1..Len(s)} \ {"{", "}"}, s, i)
    IN  IF e > i THEN Ok(e, Trim(SubSeq(s, i, e - 1))) ELSE Err(i)

RECURSIVE expr_block(_, _)
RECURSIVE ExprBlockItems(_, _, _)

\* choice((comment, nested, body)).repeated().collect()
ExprBlockItems(s, i, acc) ==
    LET Then(r, j, F(_)) == IF r.ok THEN F(r) ELSE Err(j) IN
    Or(Then(CommentPadded(s, i), i,
            LAMBDA c : ExprBlockItems(s, c.pos, Append(acc, Comment(c.val)))),
    Or(Then(expr_block(s, i), i,
            LAMBDA n : ExprBlockItems(s, n.pos, Append(acc, Nested(n.val)))),
    Or(Then(BodyText(s, i), i,
            LAMBDA b : ExprBlockItems(s, b.pos, Append(acc, Body(b.val)))),
       Ok(i, acc))))

expr_block(s, i) ==
    LET Then(r, j, F(_)) == IF r.ok THEN F(r) ELSE Err(j) IN
    Then(JustPadded(<<"{">>, s, i), i, LAMBDA open :
    Then(ExprBlockItems(s, open.pos, <<>>), i, LAMBDA items :
    Then(JustPadded(<<"}">>, s, items.pos), i, LAMBDA close :
        Ok(close.pos, items.val))))

(***************************************************************************)
(* Types.                                                                  *)
(***************************************************************************)
Type(t) == [ty |-> t, name |-> <<>>, path |-> <<>>]
TypeUser(n) == [ty |-> "User", name |-> n, path |-> <<>>]
TypeApi(p) == [ty |-> "Api", name |-> <<>>, path |-> p]

\* The built-in alternatives of `ty`, in the order of its choice((...)).
\* by_ref marks the ones written with ty_or_ref!.
BuiltinTypes == <<
    [lit |-> <<"b", "o", "o", "l">>, by_ref |-> FALSE, ty |-> "Bool"],
    [lit |-> <<"u", "8">>, by_ref |-> TRUE, ty |-> "U8"],
    [lit |-> <<"u", "1", "6">>, by_ref |-> TRUE, ty |-> "U16"],
    [lit |-> <<"u", "3", "2">>, by_ref |-> TRUE, ty |-> "U32"],
    [lit |-> <<"u", "6", "4">>, by_ref |-> TRUE, ty |-> "U64"],
    [lit |-> <<"u", "1", "2", "8">>, by_ref |-> TRUE, ty |-> "U128"],
    [lit |-> <<"i", "8">>, by_ref |-> TRUE, ty |-> "I8"],
    [lit |-> <<"i", "1", "6">>, by_ref |-> TRUE, ty |-> "I16"],
    [lit |-> <<"i", "3", "2">>, by_ref |-> TRUE, ty |-> "I32"],
    [lit |-> <<"i", "6", "4">>, by_ref |-> TRUE, ty |-> "I64"],
    [lit |-> <<"i", "1", "2", "8">>, by_ref |-> TRUE, ty |-> "I128"],
    [lit |-> <<"f", "8">>, by_ref |-> TRUE, ty |-> "F8"],
    [lit |-> <<"f", "1", "6">>, by_ref |-> TRUE, ty |-> "F16"],
    [lit |-> <<"f", "3", "2">>, by_ref |-> TRUE, ty |-> "F32"],
    [lit |-> <<"f", "6", "4">>, by_ref |-> TRUE, ty |-> "F64"],
    [lit |-> <<"f", "1", "2", "8">>, by_ref |-> TRUE, ty |-> "F128"],
    [lit |-> <<"S", "t", "r", "i", "n", "g">>, by_ref |-> TRUE, ty |-> "String"],
    [lit |-> <<"V", "e", "c", "<", "u", "8", ">">>, by_ref |-> TRUE, ty |-> "Bytes"],
    [lit |-> <<"&", "s", "t", "r">>, by_ref |-> FALSE, ty |-> "String"],
    [lit |-> <<"&", "[", "u", "8", "]">>, by_ref |-> FALSE, ty |-> "Bytes"] >>

\* ty_or_ref!(lit): just(lit).or(just(concat!('&', lit)))
ty_or_ref(lit, s, i) == Or(Just(lit, s, i), Just(<<"&">> \o lit, s, i))

\* one built-in alternative of `ty`
BuiltinAlt(b, s, i) == IF b.by_ref THEN ty_or_ref(b.lit, s, i) ELSE Just(b.lit, s, i)

\* the built-in alternatives k, k+1, ... tried in order
RECURSIVE BuiltinFrom(_, _, _)
BuiltinFrom(k, s, i) ==
    LET Then(r, j, F(_)) == IF r.ok THEN F(r) ELSE Err(j) IN
    IF k > Len(BuiltinTypes) THEN Err(i)
    ELSE Or(Then(BuiltinAlt(BuiltinTypes[k], s, i), i,
                 LAMBDA m : Ok(m.pos, Type(BuiltinTypes[k].ty))),
            BuiltinFrom(k + 1, s, i))

\* user_ty: the rules k, k+1, ... tried in order.  On a match the closure
\* calls input.next() once more before it returns the rule's name.
RECURSIVE UserTyFrom(_, _, _, _)
UserTyFrom(cfg, k, s, i) ==
    LET Then(r, j, F(_)) == IF r.ok THEN F(r) ELSE Err(j) IN
    IF k > Len(cfg) THEN Err(i)
    ELSE Or(Then(Just(cfg[k].parse, s, i), i,
                 LAMBDA m : Ok(IF m.pos <= Len(s) THEN m.pos + 1 ELSE m.pos, cfg[k].name)),
            UserTyFrom(cfg, k + 1, s, i))

\* user_ty as it would be if the longest matching pattern won
user_ty_longest_match(cfg, s, i) ==
    LET M == {k \in 1..Len(cfg) : Just(cfg[k].parse, s, i).ok}
        best == CHOOSE k \in M : \A j \in M :
                    \/ Len(cfg[k].parse) > Len(cfg[j].parse)
                    \/ (Len(cfg[k].parse) = Len(cfg[j].parse) /\ k <= j)
    IN  IF M = {} THEN Err(i)
        ELSE Ok(IF i + Len(cfg[best].parse) <= Len(s)
                THEN i + Len(cfg[best].parse) + 1
                ELSE i + Len(cfg[best].parse),
                cfg[best].name)

user_ty(cfg, s, i) == UserTyFrom(cfg, 1, s, i)

ALLOWED_TYPE_NAME_CHARS == {"_", "&", "<", ">"}

type_name(s, i) ==
    IF i <= Len(s) /\ (IsAsciiAlphabetic(s[i]) \/ s[i] \in ALLOWED_TYPE_NAME_CHARS)
    THEN LET e == SkipWhile(Lower \cup Upper \cup Digit \cup {"_"}, s, i + 1)
         IN  Ok(e, SubSeq(s, i, e - 1))
    ELSE Err(i)

\* (just("::") type_name)*, after a first type_name
RECURSIVE EntityIdRest(_, _, _)
EntityIdRest(s, i, acc) ==
    LET Then(r, j, F(_)) == IF r.ok THEN F(r) ELSE Err(j) IN
    Or(Then(Just(<<":", ":">>, s, i), i, LAMBDA sep :
       Then(type_name(s, sep.pos), i, LAMBDA nxt :
           EntityIdRest(s, nxt.pos, Append(acc, nxt.val)))),
       Ok(i, acc))

\* type_name().separated_by(just("::")).at_least(1)
entity_id(s, i) ==
    LET Then(r, j, F(_)) == IF r.ok THEN F(r) ELSE Err(j) IN
    Then(type_name(s, i), i, LAMBDA n : EntityIdRest(s, n.pos, <<n.val>>))

ty(cfg, s, i) ==
    LET Then(r, j, F(_)) == IF r.ok THEN F(r) ELSE Err(j) IN
    Or(BuiltinFrom(1, s, i),
    Or(Then(user_ty(cfg, s, i), i, LAMBDA u : Ok(u.pos, TypeUser(u.val))),
       Then(entity_id(s, i), i, LAMBDA e : Ok(e.pos, TypeApi(e.val)))))

(***************************************************************************)
(* Declarations.                                                           *)
(***************************************************************************)
Field(n, t) == [name |-> n, ty |-> t]
Dto(n, f) ==
    [kind |-> "Dto", name |-> n, fields |-> f, return_type |-> <<>>, children |-> <<>>]
Rpc(n, p, r) ==
    [kind |-> "Rpc", name |-> n, fields |-> p, return_type |-> r, children |-> <<>>]
Namespace(n, c) ==
    [kind |-> "Namespace", name |-> n, fields |-> <<>>, return_type |-> <<>>, children |-> c]

\* ident ':' ty, padded, then padded_by(multi_comment())
field(cfg, s, i) ==
    LET Then(r, j, F(_)) == IF r.ok THEN F(r) ELSE Err(j) IN
    Then(Ident(s, SkipWs(s, multi_comment(s, i).pos)), i, LAMBDA n :
    Then(JustPadded(<<":">>, s, n.pos), i, LAMBDA colon :
    Then(ty(cfg, s, colon.pos), i, LAMBDA t :
        Ok(multi_comment(s, SkipWs(s, t.pos)).pos, Field(n.val, t.val)))))

\* (just(',').padded() field)*, after a first field; allow_trailing
RECURSIVE FieldsRest(_, _, _, _)
FieldsRest(cfg, s, i, acc) ==
    LET Then(r, j, F(_)) == IF r.ok THEN F(r) ELSE Err(j) IN
    Or(Then(JustPadded(<<",">>, s, i), i, LAMBDA sep :
           Or(Then(field(cfg, s, sep.pos), i,
                   LAMBDA nxt : FieldsRest(cfg, s, nxt.pos, Append(acc, nxt.val))),
              Ok(sep.pos, acc))),
       Ok(i, acc))

\* field.separated_by(just(',').padded()).allow_trailing().collect()
Fields(cfg, s, i) ==
    LET Then(r, j, F(_)) == IF r.ok THEN F(r) ELSE Err(j) IN
    Or(Then(field(cfg, s, i), i, LAMBDA f : FieldsRest(cfg, s, f.pos, <<f.val>>)),
       Ok(i, <<>>))

\* Fields.padded_by(multi_comment()).delimited_by(open.padded(), close.padded())
FieldList(cfg, open, close, s, i) ==
    LET Then(r, j, F(_)) == IF r.ok THEN F(r) ELSE Err(j) IN
    Then(JustPadded(<<open>>, s, i), i, LAMBDA o :
    Then(Fields(cfg, s, multi_comment(s, o.pos).pos), i, LAMBDA f :
    Then(JustPadded(<<close>>, s, multi_comment(s, f.pos).pos), i, LAMBDA c :
        Ok(c.pos, f.val))))

\* the visibility as it would be if it were just("pub").padded(): no
\* whitespace needed after it
PubOpt_whitespace_optional(s, i) ==
    IF i + 2 <= Len(s) /\ SubSeq(s, i, i + 2) = <<"p", "u", "b">>
    THEN SkipWs(s, i + 3)
    ELSE i

\* text::keyword("pub").then(text::whitespace().at_least(1)).or_not(): the end position
PubOpt(s, i) ==
    IF Keyword(<<"p", "u", "b">>, s, i).ok /\ Whitespace1(s, i + 3).ok
    THEN Whitespace1(s, i + 3).pos
    ELSE i

\* just("#[") (any and not "]")* just(']')
Attr(s, i) ==
    IF Just(<<"#", "[">>, s, i).ok
    THEN LET e == SkipWhile({s[k] : k \in 1..Len(s)} \ {"]"}, s, i + 2)
         IN  IF e <= Len(s) THEN Ok(e + 1, <<>>) ELSE Err(i)
    ELSE Err(i)

\* dto as it would be without attr.or_not()
dto_without_attr(cfg, s, i) ==
    LET Then(r, j, F(_)) == IF r.ok THEN F(r) ELSE Err(j) IN
    Then(Keyword(<<"s", "t", "r", "u", "c", "t">>, s, SkipWs(s, PubOpt(s, SkipWs(s, i)))), i,
         LAMBDA kw :
    Then(Ident(s, SkipWs(s, kw.pos)), i, LAMBDA n :
    Then(FieldList(cfg, "{", "}", s, n.pos), i, LAMBDA f :
        Ok(f.pos, Dto(n.val, f.val)))))

dto(cfg, s, i) ==
    LET Then(r, j, F(_)) == IF r.ok THEN F(r) ELSE Err(j) IN
    LET a0 == SkipWs(s, i)
        a == SkipWs(s, IF Attr(s, a0).ok THEN Attr(s, a0).pos ELSE a0)
    IN  Then(Keyword(<<"s", "t", "r", "u", "c", "t">>, s, SkipWs(s, PubOpt(s, a))), i,
             LAMBDA kw :
        Then(Ident(s, SkipWs(s, kw.pos)), i, LAMBDA n :
        Then(FieldList(cfg, "{", "}", s, n.pos), i, LAMBDA f :
            Ok(f.pos, Dto(n.val, f.val)))))

\* just("->").ignore_then(ty().padded()).or_not(), after the parameter list
ReturnType(cfg, s, i) ==
    LET Then(r, j, F(_)) == IF r.ok THEN F(r) ELSE Err(j) IN
    Or(Then(Just(<<"-", ">">>, s, i), i, LAMBDA arrow :
       Then(ty(cfg, s, SkipWs(s, arrow.pos)), i, LAMBDA rt :
           Ok(SkipWs(s, rt.pos), <<rt.val>>))),
       Ok(i, <<>>))

rpc(cfg, s, i) ==
    LET Then(r, j, F(_)) == IF r.ok THEN F(r) ELSE Err(j) IN
    Then(Keyword(<<"f", "n">>, s, PubOpt(s, SkipWs(s, i))), i, LAMBDA kw :
    Then(Ident(s, SkipWs(s, kw.pos)), i, LAMBDA n :
    Then(FieldList(cfg, "(", ")", s, n.pos), i, LAMBDA p :
    Then(ReturnType(cfg, s, p.pos), i, LAMBDA rt :
    Then(expr_block(s, SkipWs(s, rt.pos)), i, LAMBDA b :
        Ok(SkipWs(s, b.pos), Rpc(n.val, p.val, rt.val)))))))

RECURSIVE namespace(_, _, _)
RECURSIVE NamespaceChildrenFrom(_, _, _, _)

\* choice((dto, rpc, namespace)).padded_by(multi_comment()).repeated().collect()
NamespaceChildrenFrom(cfg, s, i, acc) ==
    LET Then(r, j, F(_)) == IF r.ok THEN F(r) ELSE Err(j) IN
    LET c1 == multi_comment(s, i).pos
    IN  Or(Then(Or(dto(cfg, s, c1), Or(rpc(cfg, s, c1), namespace(cfg, s, c1))), i,
                LAMBDA item :
                    NamespaceChildrenFrom(cfg, s, multi_comment(s, item.pos).pos,
                                          Append(acc, item.val))),
           Ok(i, acc))

\* namespace_children as it would be if it collected in reverse
namespace_children_reversed(cfg, s, i) ==
    LET r == NamespaceChildrenFrom(cfg, s, i, <<>>)
    IN  Ok(r.pos, [k \in 1..Len(r.val) |-> r.val[Len(r.val) + 1 - k]])

namespace_children(cfg, s, i) == NamespaceChildrenFrom(cfg, s, i, <<>>)

\* namespace as it would be without the declaration-only form `mod name;`
namespace_body_required(cfg, s, i) ==
    LET Then(r, j, F(_)) == IF r.ok THEN F(r) ELSE Err(j) IN
    Then(Keyword(<<"m", "o", "d">>, s, PubOpt(s, SkipWs(s, i))), i, LAMBDA kw :
    Then(Ident(s, SkipWs(s, kw.pos)), i, LAMBDA n :
    Then(JustPadded(<<"{">>, s, n.pos), i, LAMBDA o :
    Then(namespace_children(cfg, s, o.pos), i, LAMBDA body :
    Then(JustPadded(<<"}">>, s, body.pos), i, LAMBDA c :
        Ok(c.pos, Namespace(n.val, body.val)))))))

namespace(cfg, s, i) ==
    LET Then(r, j, F(_)) == IF r.ok THEN F(r) ELSE Err(j) IN
    Then(Keyword(<<"m", "o", "d">>, s, PubOpt(s, SkipWs(s, i))), i, LAMBDA kw :
    Then(Ident(s, SkipWs(s, kw.pos)), i, LAMBDA n :
        Or(Then(JustPadded(<<";">>, s, n.pos), i,
                LAMBDA semi : Ok(semi.pos, Namespace(n.val, <<>>))),
           Then(JustPadded(<<"{">>, s, n.pos), i, LAMBDA o :
           Then(namespace_children(cfg, s, o.pos), i, LAMBDA body :
           Then(JustPadded(<<"}">>, s, body.pos), i, LAMBDA c :
               Ok(c.pos, Namespace(n.val, body.val))))))))

\* ident (just("::") ident)*: the end position
RECURSIVE UsePathRest(_, _)
UsePathRest(s, i) ==
    IF Just(<<":", ":">>, s, i).ok /\ Ident(s, i + 2).ok
    THEN UsePathRest(s, Ident(s, i + 2).pos)
    ELSE i

use_decl(s, i) ==
    LET Then(r, j, F(_)) == IF r.ok THEN F(r) ELSE Err(j) IN
    Then(Keyword(<<"u", "s", "e">>, s, PubOpt(s, i)), i, LAMBDA kw :
    Then(Whitespace1(s, kw.pos), i, LAMBDA w :
    Then(Ident(s, w.pos), i, LAMBDA first :
    Then(Just(<<";">>, s, UsePathRest(s, first.pos)), i, LAMBDA semi :
        Ok(semi.pos, <<>>)))))

\* choice((use_decl, comment)).padded().repeated(): the end position
RECURSIVE Prelude(_, _)
Prelude(s, i) ==
    LET item == Or(use_decl(s, SkipWs(s, i)), comment(s, SkipWs(s, i)))
    IN  IF item.ok THEN Prelude(s, SkipWs(s, item.pos)) ELSE i

\* the chunk parser as it would be without .then_ignore(end())
ParseChunkData_without_end(cfg, s) ==
    LET Then(r, j, F(_)) == IF r.ok THEN F(r) ELSE Err(j) IN
    Then(namespace_children(cfg, s, SkipWs(s, Prelude(s, 1))), 1, LAMBDA c :
        Ok(Len(s) + 1, c.val))

\* The parser Rust::parse builds for one chunk, applied to the whole text.
ParseChunkData(cfg, s) ==
    LET Then(r, j, F(_)) == IF r.ok THEN F(r) ELSE Err(j) IN
    Then(namespace_children(cfg, s, SkipWs(s, Prelude(s, 1))), 1, LAMBDA c :
        IF End(s, SkipWs(s, c.pos)).ok THEN Ok(Len(s) + 1, c.val) ELSE Err(1))

(***************************************************************************)
(* Chunk paths.  A path is its text; Path::iter yields the root "/" of an   *)
(* absolute path and then the components between the '/' separators,      *)
(* without the empty ones and without a "." that is not the first          *)
(* component of a relative path.                                           *)
(***************************************************************************)
PARENT_DIR == <<".", ".">>

\* acc with the component cur that a separator or the end of the path closes
WithComponent(acc, cur) ==
    IF cur = <<>> \/ (cur = <<".">> /\ acc # <<>>) THEN acc ELSE Append(acc, cur)

RECURSIVE PathComponentsFrom(_, _, _, _)
PathComponentsFrom(p, i, cur, acc) ==
    IF i > Len(p) THEN WithComponent(acc, cur)
    ELSE IF p[i] = "/"
         THEN PathComponentsFrom(p, i + 1, <<>>, WithComponent(acc, cur))
         ELSE PathComponentsFrom(p, i + 1, Append(cur, p[i]), acc)

\* path_iter: the components of a path, as strings
path_iter(p) ==
    PathComponentsFrom(p, 1, <<>>, IF Len(p) > 0 /\ p[1] = "/" THEN <<<<"/">>>> ELSE <<>>)

\* the index of the last '.' of a file name, 0 when there is none
RECURSIVE LastDot(_, _)
LastDot(n, i) == IF i = 0 THEN 0 ELSE IF n[i] = "." THEN i ELSE LastDot(n, i - 1)

\* The name with_extension("") leaves of the last component n: the name up
\* to its last '.'.  A name whose only '.' is its first character has no
\* extension, ".." is no file name, and a name that is cut to ".." at the
\* very end of the path text stays "..": behind a trailing separator the
\* cut goes on to ".".
file_stem(n, trailing) ==
    IF n = PARENT_DIR \/ LastDot(n, Len(n)) <= 1 THEN n
    ELSE IF SubSeq(n, 1, LastDot(n, Len(n))) = PARENT_DIR /\ ~trailing THEN PARENT_DIR
    ELSE SubSeq(n, 1, LastDot(n, Len(n)) - 1)

\* Path::with_extension(""), as the components of the path it returns.  The
\* extension is cut off the path text, so a '/' or '/.' after the last
\* component matters, and a last component that becomes "." is a
\* component only of a path that has no other.
with_extension(p) ==
    LET c == path_iter(p)
        trailing == \/ p[Len(p)] = "/"
                    \/ (Len(p) > 1 /\ p[Len(p) - 1] = "/" /\ p[Len(p)] = ".")
    IN  IF c = <<>> THEN <<>>
        ELSE WithComponent(SubSeq(c, 1, Len(c) - 1), file_stem(c[Len(c)], trailing))

MOD_RS == <<"m", "o", "d", ".", "r", "s">>
LIB_RS == <<"l", "i", "b", ".", "r", "s">>

\* namespace_path as it would be without the rule for mod.rs and lib.rs
namespace_path_no_index_rule(file_path) == with_extension(file_path)

\* namespace_path as it would be if the extension were kept
namespace_path_keep_extension(file_path) ==
    LET c == path_iter(file_path)
    IN  IF c = <<>> THEN <<>>
        ELSE IF c[Len(c)] = MOD_RS \/ c[Len(c)] = LIB_RS
             THEN SubSeq(c, 1, Len(c) - 1)
             ELSE c

\* namespace_path: the module path of a file, as its component sequence
namespace_path(file_path) ==
    LET c == path_iter(file_path)
    IN  IF c = <<>> THEN <<>>
        ELSE IF c[Len(c)] = MOD_RS \/ c[Len(c)] = LIB_RS
             THEN SubSeq(c, 1, Len(c) - 1)
             ELSE with_extension(file_path)

(***************************************************************************)
(* model::Builder and the lookups of the model.                            *)
(***************************************************************************)
UNDEFINED_NAMESPACE == <<"_">>

\* the index of the first child of `kinds` named n, 0 when there is none
RECURSIVE ChildIndexFrom(_, _, _, _)
ChildIndexFrom(cs, k, n, kinds) ==
    IF k > Len(cs) THEN 0
    ELSE IF cs[k].name = n /\ cs[k].kind \in kinds THEN k
    ELSE ChildIndexFrom(cs, k + 1, n, kinds)

ChildIndex(ns, n, kinds) == ChildIndexFrom(ns.children, 1, n, kinds)

\* Builder::merge_from_chunk: walk the nesting stack from the root, descend
\* at each level into the first namespace of that name or create it when
\* the level has none, and append the chunk's children, as they are, to
\* the namespace at the end of the path.
RECURSIVE MergeAt(_, _, _)
MergeAt(ns, stack, new_children) ==
    IF stack = <<>> THEN [ns EXCEPT !.children = @ \o new_children]
    ELSE LET k == ChildIndex(ns, Head(stack), {"Namespace"})
         IN  IF k > 0
             THEN [ns EXCEPT !.children[k] = MergeAt(@, Tail(stack), new_children)]
             ELSE [ns EXCEPT !.children =
                      Append(@, MergeAt(Namespace(Head(stack), <<>>),
                                        Tail(stack), new_children))]

\* the lookup as it would be if a segment before the last were resolved to
\* the first child of that name, of whatever kind
RECURSIVE FindOfKind_through_any_kind(_, _, _)
FindOfKind_through_any_kind(ns, id, kinds) ==
    IF id = <<>> THEN <<>>
    ELSE IF Len(id) = 1
         THEN (IF ChildIndex(ns, id[1], kinds) > 0
               THEN <<ns.children[ChildIndex(ns, id[1], kinds)]>>
               ELSE <<>>)
         ELSE (IF ChildIndex(ns, id[1], {"Dto", "Rpc", "Enum", "Namespace"}) > 0
               THEN FindOfKind_through_any_kind(
                        ns.children[ChildIndex(ns, id[1], {"Dto", "Rpc", "Enum", "Namespace"})],
                        Tail(id), kinds)
               ELSE <<>>)

\* Namespace::find_child and its kind-specific forms: an Option, as a
\* sequence of length 0 or 1
RECURSIVE FindOfKind(_, _, _)
FindOfKind(ns, id, kinds) ==
    IF id = <<>> THEN <<>>
    ELSE IF Len(id) = 1
         THEN (IF ChildIndex(ns, id[1], kinds) > 0
               THEN <<ns.children[ChildIndex(ns, id[1], kinds)]>>
               ELSE <<>>)
         ELSE (IF ChildIndex(ns, id[1], {"Namespace"}) > 0
               THEN FindOfKind(ns.children[ChildIndex(ns, id[1], {"Namespace"})],
                               Tail(id), kinds)
               ELSE <<>>)

AllKinds == {"Dto", "Rpc", "Enum", "Namespace"}
find_child(ns, id) == FindOfKind(ns, id, AllKinds)
find_namespace(ns, id) == FindOfKind(ns, id, {"Namespace"})
find_dto(ns, id) == FindOfKind(ns, id, {"Dto"})
find_rpc(ns, id) == FindOfKind(ns, id, {"Rpc"})

\* no output has been made
NoOutput == buffer = <<>> /\ calls = <<>>

\* no view has been made of the model
NoView == view = <<>> /\ op = "none" /\ lookup_id = <<>> /\ found = <<>>

(***************************************************************************)
(* Rust::parse, one step of its loop at a time.                            *)
(***************************************************************************)
Chunk(p, d) == [relative_file_path |-> p, data |-> d]
NoPath == <<>>
Path(p) == <<p>>

\* Rust::parse as it would be if it never entered the path's namespaces
ChunkComponents_not_entered(chunk) == <<>>

\* the components Rust::parse pushes for a chunk
ChunkComponents(chunk) ==
    IF chunk.relative_file_path = <<>> THEN <<>>
    ELSE namespace_path(chunk.relative_file_path[1])

Idle == Err(0)

\* for component in path_iter(&namespace_path(file_path)) { builder.enter_namespace(..) }
EnterNamespace ==
    /\ pc = "enter"
    /\ idx <= Len(input)
    /\ namespace_stack' = namespace_stack \o ChunkComponents(input[idx])
    /\ pc' = "parse"
    /\ UNCHANGED <<config, data, rule, output, input, idx, api, children, result, view, op, lookup_id, found, buffer, calls>>

\* the chunk's text matches the grammar
ParseOk ==
    /\ pc = "parse"
    /\ ParseChunkData(config, input[idx].data).ok
    /\ children' = ParseChunkData(config, input[idx].data).val
    /\ pc' = "merge"
    /\ UNCHANGED <<config, data, rule, output, input, idx, namespace_stack, api, result, view, op, lookup_id, found, buffer, calls>>

\* .map_err(..)?: the chunk's text does not match, parse returns the error
ParseErr ==
    /\ pc = "parse"
    /\ ~ParseChunkData(config, input[idx].data).ok
    /\ result' = "err"
    /\ pc' = "done"
    /\ UNCHANGED <<config, data, rule, output, input, idx, namespace_stack, api, children, view, op, lookup_id, found, buffer, calls>>

\* builder.merge_from_chunk(Api { name: UNDEFINED_NAMESPACE, children, .. }, chunk)
MergeFromChunk ==
    /\ pc = "merge"
    /\ api' = MergeAt(api, namespace_stack, children)
    /\ pc' = "clear"
    /\ UNCHANGED <<config, data, rule, output, input, idx, namespace_stack, children, result, view, op, lookup_id, found, buffer, calls>>

\* the end of the loop body as it would be without builder.clear_namespace()
ClearNamespace_stack_kept ==
    /\ pc = "clear"
    /\ namespace_stack' = namespace_stack
    /\ idx' = idx + 1
    /\ pc' = "enter"
    /\ UNCHANGED <<config, data, rule, output, input, api, children, result, view, op, lookup_id, found, buffer, calls>>

\* builder.clear_namespace(), and on to the next chunk
ClearNamespace ==
    /\ pc = "clear"
    /\ namespace_stack' = <<>>
    /\ idx' = idx + 1
    /\ pc' = "enter"
    /\ UNCHANGED <<config, data, rule, output, input, api, children, result, view, op, lookup_id, found, buffer, calls>>

\* Ok(()) after the last chunk
ReturnOk ==
    /\ pc = "enter"
    /\ idx > Len(input)
    /\ result' = "ok"
    /\ pc' = "done"
    /\ UNCHANGED <<config, data, rule, output, input, idx, namespace_stack, api, children, view, op, lookup_id, found, buffer, calls>>

(***************************************************************************)
(* The inputs of Rust::parse that are explored.                            *)
(***************************************************************************)
\* the Config of the parser's tests: user_type -> user
CONFIG == <<[parse |-> <<"u", "s", "e", "r", "_", "t", "y", "p", "e">>, name |-> <<"u", "s", "e", "r">>]>>

ChunkPool == {
    \* (no path): mod x;
    Chunk(NoPath,
          <<"m", "o", "d", " ", "x", ";">>),
    \* x.rs: struct d {}
    Chunk(Path(<<"x", ".", "r", "s">>),
          <<"s", "t", "r", "u", "c", "t", " ", "d", " ", "{", "}">>),
    \* a/b/mod.rs: struct d {}
    Chunk(Path(<<"a", "/", "b", "/", "m", "o", "d", ".", "r", "s">>),
          <<"s", "t", "r", "u", "c", "t", " ", "d", " ", "{", "}">>),
    \* a/./b/lib.rs: fn r() {}
    Chunk(Path(<<"a", "/", ".", "/", "b", "/", "l", "i", "b", ".", "r", "s">>),
          <<"f", "n", " ", "r", "(", ")", " ", "{", "}">>),
    \* a/b/c.rs: struct e {}
    Chunk(Path(<<"a", "/", "b", "/", "c", ".", "r", "s">>),
          <<"s", "t", "r", "u", "c", "t", " ", "e", " ", "{", "}">>),
    \* a/b.rs: mod c { struct f {} }
    Chunk(Path(<<"a", "/", "b", ".", "r", "s">>),
          <<"m", "o", "d", " ", "c", " ", "{", " ", "s", "t", "r", "u", "c", "t", " ", "f", " ", "{", "}", " ", "}">>),
    \* y.rs: struct
    Chunk(Path(<<"y", ".", "r", "s">>),
          <<"s", "t", "r", "u", "c", "t">>),
    \* (no path): struct d {} fn r() {}
    Chunk(NoPath,
          <<"s", "t", "r", "u", "c", "t", " ", "d", " ", "{", "}", " ", "f", "n", " ", "r", "(", ")", " ", "{", "}">>) }

MaxChunks == 3

Inputs == UNION {[1..n -> ChunkPool] : n \in 1..MaxChunks}

Init ==
    /\ config = CONFIG
    /\ input \in Inputs
    /\ idx = 1
    /\ pc = "enter"
    /\ namespace_stack = <<>>
    /\ api = Namespace(UNDEFINED_NAMESPACE, <<>>)
    /\ children = <<>>
    /\ result = "none"
    /\ NoView
    /\ NoOutput
    /\ data = <<>>
    /\ rule = "none"
    /\ output = Idle

Next ==
    \/ EnterNamespace
    \/ ParseOk
    \/ ParseErr
    \/ MergeFromChunk
    \/ ClearNamespace
    \/ ReturnOk

Spec == Init /\ [][Next]_vars

(***************************************************************************)
(* A grammar rule applied to a text.                                       *)
(***************************************************************************)
\* expr_block().parse(data)
ApplyExprBlock ==
    /\ rule = "none"
    /\ rule' = "expr_block"
    /\ output' = ParseAll(data, expr_block(data, 1))
    /\ UNCHANGED <<config, data, input, idx, pc, namespace_stack, api, children, result, view, op, lookup_id, found, buffer, calls>>

BodyAlphabet == {"{", "}", "/", "*", "\n", "x"}
MaxBodyLen == 6

\* every text of at most MaxBodyLen characters after an opening brace
BodyTexts ==
    {<<"{">> \o t : t \in UNION {[1..n -> BodyAlphabet] : n \in 0..MaxBodyLen}}

InitRule(cfgs, texts) ==
    /\ config \in cfgs
    /\ data \in texts
    /\ rule = "none"
    /\ output = Idle
    /\ input = <<>>
    /\ idx = 1
    /\ pc = "rule"
    /\ namespace_stack = <<>>
    /\ api = Namespace(UNDEFINED_NAMESPACE, <<>>)
    /\ children = <<>>
    /\ result = "none"
    /\ NoView
    /\ NoOutput

InitExprBlock == InitRule({CONFIG}, BodyTexts)

SpecExprBlock == InitExprBlock /\ [][ApplyExprBlock]_vars

(***************************************************************************)
(* The brace that closes a body when comment text is disregarded: a plain  *)
(* scan that counts braces outside comments.  0 when the braces do not     *)
(* balance or a block comment is not closed.                               *)
(***************************************************************************)
RECURSIVE BraceScan(_, _, _, _)
BraceScan(s, i, depth, mode) ==
    IF i > Len(s) THEN 0
    ELSE IF mode = "line"
         THEN BraceScan(s, i + 1, depth, IF s[i] = "\n" THEN "code" ELSE "line")
    ELSE IF mode = "block"
         THEN (IF s[i] = "*" /\ i < Len(s) /\ s[i + 1] = "/"
               THEN BraceScan(s, i + 2, depth, "code")
               ELSE BraceScan(s, i + 1, depth, "block"))
    ELSE IF s[i] = "/" /\ i < Len(s) /\ s[i + 1] = "/" THEN BraceScan(s, i + 2, depth, "line")
    ELSE IF s[i] = "/" /\ i < Len(s) /\ s[i + 1] = "*" THEN BraceScan(s, i + 2, depth, "block")
    ELSE IF s[i] = "{" THEN BraceScan(s, i + 1, depth + 1, "code")
    ELSE IF s[i] = "}" THEN (IF depth = 1 THEN i ELSE BraceScan(s, i + 1, depth - 1, "code"))
    ELSE BraceScan(s, i + 1, depth, "code")

\* for a text that opens with '{'
ClosingBrace(s) == BraceScan(s, 2, 1, "code")

\* the last character before pos that is not whitespace, 0 when there is
\* none: where a padded rule that stopped at pos read its last token
RECURSIVE LastConsumed(_, _)
LastConsumed(s, pos) ==
    IF pos <= 1 THEN 0
    ELSE IF s[pos - 1] \in Whitespace THEN LastConsumed(s, pos - 1)
    ELSE pos - 1

\* C1: for every body whose braces balance once comment text is
\* disregarded, expr_block ends exactly at the brace that closes the body,
\* wherever in the body the comments are: expr_block().parse accepts the
\* text exactly when that brace is its last character but for whitespace.
C1_BodyEndsAtClosingBrace ==
    (rule = "expr_block" /\ ClosingBrace(data) > 0)
        => (output.ok <=> LastConsumed(data, Len(data) + 1) = ClosingBrace(data))

(***************************************************************************)
(* The type rules applied to a text.                                       *)
(***************************************************************************)
\* ty(&config).parse(data)
ApplyTy ==
    /\ rule = "none"
    /\ rule' = "ty"
    /\ output' = ParseAll(data, ty(config, data, 1))
    /\ UNCHANGED <<config, data, input, idx, pc, namespace_stack, api, children, result, view, op, lookup_id, found, buffer, calls>>

\* user_ty(&config).parse(data)
ApplyUserTy ==
    /\ rule = "none"
    /\ rule' = "user_ty"
    /\ output' = ParseAll(data, user_ty(config, data, 1))
    /\ UNCHANGED <<config, data, input, idx, pc, namespace_stack, api, children, result, view, op, lookup_id, found, buffer, calls>>

\* The value spellings of the boolean, numeric, string and byte-sequence
\* types, each with its variant.
ValueSpellings == {
    [lit |-> <<"b", "o", "o", "l">>, ty |-> "Bool"],
    [lit |-> <<"u", "8">>, ty |-> "U8"],
    [lit |-> <<"u", "1", "6">>, ty |-> "U16"],
    [lit |-> <<"u", "3", "2">>, ty |-> "U32"],
    [lit |-> <<"u", "6", "4">>, ty |-> "U64"],
    [lit |-> <<"u", "1", "2", "8">>, ty |-> "U128"],
    [lit |-> <<"i", "8">>, ty |-> "I8"],
    [lit |-> <<"i", "1", "6">>, ty |-> "I16"],
    [lit |-> <<"i", "3", "2">>, ty |-> "I32"],
    [lit |-> <<"i", "6", "4">>, ty |-> "I64"],
    [lit |-> <<"i", "1", "2", "8">>, ty |-> "I128"],
    [lit |-> <<"f", "8">>, ty |-> "F8"],
    [lit |-> <<"f", "1", "6">>, ty |-> "F16"],
    [lit |-> <<"f", "3", "2">>, ty |-> "F32"],
    [lit |-> <<"f", "6", "4">>, ty |-> "F64"],
    [lit |-> <<"f", "1", "2", "8">>, ty |-> "F128"],
    [lit |-> <<"S", "t", "r", "i", "n", "g">>, ty |-> "String"],
    [lit |-> <<"V", "e", "c", "<", "u", "8", ">">>, ty |-> "Bytes"] }

UserTypePool == {
    [parse |-> <<"u", "_", "a">>, name |-> <<"A">>],
    [parse |-> <<"u", "_", "a", "b">>, name |-> <<"B">>],
    [parse |-> <<"u", "_">>, name |-> <<"C">>],
    [parse |-> <<"u", "_", "a">>, name |-> <<"D">>],
    [parse |-> <<"i", "3", "2">>, name |-> <<"i", "n", "t">>],
    [parse |-> <<"i", "3", "2", "x">>, name |-> <<"X">>] }

MaxRules == 2

\* every ordered rule list of at most MaxRules rules
Configs == UNION {[1..n -> UserTypePool] : n \in 0..MaxRules}

TyTexts ==
    {v.lit : v \in ValueSpellings} \cup {<<"&">> \o v.lit : v \in ValueSpellings} \cup {
    <<"u", "_", "a", "b">>,
    <<"u", "_", "a">>,
    <<"u", "_">>,
    <<"u", "_", "b">>,
    <<"u", "_", "a", "b", "c">>,
    <<"u", "_", "a", ",">>,
    <<"i", "3", "2">>,
    <<"i", "3", "2", " ">>,
    <<"i", "3", "2", "x">>,
    <<"x">>,
    <<"&", "s", "t", "r">>,
    <<"&", "[", "u", "8", "]">>,
    <<"a", ":", ":", "b", ":", ":", "c">>,
    <<"u", "s", "e", "r", "_", "t", "y", "p", "e">>,
    <<"&", "T", "y", "p", "e">>,
    <<"_", "t", "y", "p", "e">>,
    <<>> }

InitTy == InitRule(Configs, TyTexts)

SpecTy == InitTy /\ [][ApplyTy \/ ApplyUserTy]_vars

IsPrefix(pre, s) == Len(pre) <= Len(s) /\ SubSeq(s, 1, Len(pre)) = pre

\* the rules of the configuration whose pattern matches at the start of s
MatchingRules(cfg, s) == {k \in 1..Len(cfg) : IsPrefix(cfg[k].parse, s)}

EarliestMatch(cfg, s) ==
    CHOOSE k \in MatchingRules(cfg, s) : \A j \in MatchingRules(cfg, s) : k <= j

\* C9: when several configured user-type rules match at the current
\* position, the rule declared earliest decides the display name, both in
\* user_ty and when ty yields a user-defined type: a text that is the
\* pattern of its earliest matching rule is accepted, and every accepted
\* text has the display name of its earliest matching rule.
C9_EarliestRuleWins ==
    /\ (rule = "user_ty" /\ MatchingRules(config, data) # {}
          /\ data = config[EarliestMatch(config, data)].parse) => output.ok
    /\ (rule = "user_ty" /\ output.ok)
          => (/\ MatchingRules(config, data) # {}
              /\ output.val = config[EarliestMatch(config, data)].name)
    /\ (rule = "ty" /\ output.ok /\ output.val.ty = "User")
          => (/\ MatchingRules(config, data) # {}
              /\ output.val.name = config[EarliestMatch(config, data)].name)

\* C9 witness: rules [("u_a","A"), ("u_ab","B")] on "u_ab" selected ("u_a","A").
C9_Witness ==
    /\ rule = "user_ty"
    /\ config = <<[parse |-> <<"u", "_", "a">>, name |-> <<"A">>],
                  [parse |-> <<"u", "_", "a", "b">>, name |-> <<"B">>]>>
    /\ data = <<"u", "_", "a", "b">>
    /\ output.ok
    /\ output.val = <<"A">>

\* C10: the by-reference spelling of every primitive, string and
\* byte-sequence type, boolean included, parses to the variant of its
\* value spelling and never to an API reference.
C10_RefSpellingSameVariant ==
    \A v \in ValueSpellings :
        (rule = "ty" /\ data = <<"&">> \o v.lit)
            => (output.ok /\ output.val = Type(v.ty))

(***************************************************************************)
(* Properties of Rust::parse over a sequence of chunks.                    *)
(***************************************************************************)
\* the namespace at a path of names, the root for the empty path
NamespaceAt(ns, id) == IF id = <<>> THEN <<ns>> ELSE find_namespace(ns, id)

\* the paths, as child indexes, of every namespace of the tree
RECURSIVE IndexPaths(_)
IndexPaths(ns) ==
    {<<>>} \cup UNION {{<<k>> \o q : q \in IndexPaths(ns.children[k])} :
                       k \in {j \in 1..Len(ns.children) : ns.children[j].kind = "Namespace"}}

RECURSIVE NodeAt(_, _)
NodeAt(ns, ip) == IF ip = <<>> THEN ns ELSE NodeAt(ns.children[Head(ip)], Tail(ip))

\* kind and name of every child, in order
Shape(cs) == [k \in 1..Len(cs) |-> <<cs[k].kind, cs[k].name>>]

\* no namespace of the tree has two child namespaces of one name
NoDuplicateNamespaces(ns) ==
    \A ip \in IndexPaths(ns) :
        LET cs == NodeAt(ns, ip).children
        IN  \A j, k \in 1..Len(cs) :
                (cs[j].kind = "Namespace" /\ cs[k].kind = "Namespace"
                    /\ cs[j].name = cs[k].name) => j = k

\* file components of a chunk path, read off the path text
LastComponent(p) == path_iter(p)[Len(path_iter(p))]
Directories(p) == SubSeq(path_iter(p), 1, Len(path_iter(p)) - 1)
IsIndexFile(p) == path_iter(p) # <<>> /\ LastComponent(p) \in {MOD_RS, LIB_RS}

\* a file name without its extension: the text before its last '.'
WithoutExtension(n) ==
    LET dots == {k \in 1..Len(n) : n[k] = "."}
    IN  IF dots = {} THEN n
        ELSE SubSeq(n, 1, (CHOOSE k \in dots : \A j \in dots : j <= k) - 1)

IsSuffix(suf, cs) ==
    Len(suf) <= Len(cs) /\ SubSeq(cs, Len(cs) - Len(suf) + 1, Len(cs)) = suf

\* C2: when a chunk fails to match the grammar, parse returns an error and
\* the builder holds no declaration of any chunk, not even of the chunks
\* processed before the failing one.
C2_ErrorLeavesBuilderEmpty ==
    result = "err" => api.children = <<>>

RS == <<".", "r", "s">>

\* C3: a chunk that forward-declares namespace n at the root and a chunk
\* at path n.rs that declares a DTO d make n.d found in the finished tree,
\* whichever of the two chunks comes first.
C3_ForwardDeclarationEitherOrder ==
    (pc = "done" /\ result = "ok") =>
        \A i, j \in 1..Len(input) :
            LET decl == ParseChunkData(config, input[i].data).val
                body == ParseChunkData(config, input[j].data).val
            IN  \A a \in 1..Len(decl), b \in 1..Len(body) :
                    (/\ input[i].relative_file_path = NoPath
                     /\ decl[a].kind = "Namespace"
                     /\ decl[a].children = <<>>
                     /\ input[j].relative_file_path = Path(decl[a].name \o RS)
                     /\ body[b].kind = "Dto")
                    => /\ find_dto(api, <<decl[a].name, body[b].name>>) # <<>>
                       /\ find_dto(api, <<decl[a].name, body[b].name>>)[1].name = body[b].name

\* C3 witness: the body chunk x.rs came first, the declaration `mod x;`
\* second, and x.d is found.
C3_Witness ==
    /\ pc = "done"
    /\ result = "ok"
    /\ Len(input) = 2
    /\ input[1].relative_file_path = Path(<<"x", ".", "r", "s">>)
    /\ input[2].relative_file_path = NoPath
    /\ input[2].data = <<"m", "o", "d", " ", "x", ";">>
    /\ find_dto(api, <<<<"x">>, <<"d">>>>) # <<>>

\* C4: after any sequence of merges no namespace has two child namespaces
\* with the same name, whether a namespace came from a chunk's path, from
\* a forward declaration or from a `mod x { .. }` body, and in whatever
\* order the chunks arrived.
C4_OneNodePerNamespace == NoDuplicateNamespaces(api)

\* The declarations written at the top level of a chunk text, in source
\* order: a token scan that looks for the declaration keywords outside
\* braces and parentheses.
DeclKind(w) ==
    IF w = <<"s", "t", "r", "u", "c", "t">> THEN "Dto"
    ELSE IF w = <<"f", "n">> THEN "Rpc"
    ELSE IF w = <<"m", "o", "d">> THEN "Namespace"
    ELSE "none"

RECURSIVE DeclScan(_, _, _, _)
DeclScan(s, i, depth, acc) ==
    IF i > Len(s) THEN acc
    ELSE IF s[i] \in {"{", "("} THEN DeclScan(s, i + 1, depth + 1, acc)
    ELSE IF s[i] \in {"}", ")"} THEN DeclScan(s, i + 1, depth - 1, acc)
    ELSE IF Ident(s, i).ok
         THEN LET w == Ident(s, i)
                  n == Ident(s, SkipWs(s, w.pos))
              IN  IF depth = 0 /\ DeclKind(w.val) # "none" /\ n.ok
                  THEN DeclScan(s, n.pos, depth, Append(acc, <<DeclKind(w.val), n.val>>))
                  ELSE DeclScan(s, w.pos, depth, acc)
    ELSE DeclScan(s, i + 1, depth, acc)

DeclaredAtTopLevel(s) == DeclScan(s, 1, 0, <<>>)

IsPrefixSeq(a, b) == Len(a) <= Len(b) /\ SubSeq(b, 1, Len(a)) = a

\* the elements of sh at the indexes of keep, in increasing index order
Pick(sh, keep) ==
    [n \in 1..Cardinality(keep) |->
        sh[CHOOSE k \in keep : Cardinality({j \in keep : j <= k}) = n]]

\* the DTOs and RPCs of a child sequence, in order
Declarations(sh) == Pick(sh, {k \in 1..Len(sh) : sh[k][1] # "Namespace"})

\* C5: the children parsed from a chunk are its declarations in source
\* order; a merge appends them, in that order, to the child sequence of the
\* chunk's namespace and leaves the children already present in every
\* namespace where they were; no other step changes the tree.
C5_ChildOrderPreserved ==
    [][/\ \A ip \in IndexPaths(api) :
              /\ ip \in IndexPaths(api')
              /\ IsPrefixSeq(Shape(NodeAt(api, ip).children),
                             Shape(NodeAt(api', ip).children))
       /\ pc # "merge" => api' = api
       /\ pc = "merge" =>
              LET old == IF NamespaceAt(api, namespace_stack) = <<>> THEN <<>>
                         ELSE Shape(NamespaceAt(api, namespace_stack)[1].children)
                  new == NamespaceAt(api', namespace_stack)
              IN  /\ Shape(children) = DeclaredAtTopLevel(input[idx].data)
                  /\ new # <<>>
                  /\ Shape(new[1].children)
                        = old \o DeclaredAtTopLevel(input[idx].data)
      ]_vars

\* C5 witness: the third chunk has been merged into a namespace that
\* already held children of two earlier chunks.
C5_Witness ==
    /\ pc = "clear"
    /\ idx = 3
    /\ NamespaceAt(api, namespace_stack) # <<>>
    /\ Len(NamespaceAt(api, namespace_stack)[1].children) >= 4
    /\ Len(children) = 2

\* C6: a chunk whose path ends in mod.rs or lib.rs is merged under the
\* namespace of its directory: its DTOs are found at <directories>.<name>
\* and no namespace named after the index file exists.
C6_IndexFileUsesParentNamespace ==
    /\ \A ip \in IndexPaths(api) :
           NodeAt(api, ip).name \notin {MOD_RS, LIB_RS, <<"m", "o", "d">>, <<"l", "i", "b">>}
    /\ (/\ pc \in {"parse", "merge", "clear"}
        /\ input[idx].relative_file_path # NoPath
        /\ IsIndexFile(input[idx].relative_file_path[1]))
       => LET dirs == Directories(input[idx].relative_file_path[1])
          IN  /\ namespace_stack = dirs
              /\ pc = "clear" =>
                     \A k \in 1..Len(children) :
                         children[k].kind = "Dto" =>
                             find_dto(api, Append(dirs, children[k].name)) # <<>>

\* C6 witness: a/b/mod.rs with `struct d {}` has been merged and a.b.d is found.
C6_Witness ==
    /\ pc = "clear"
    /\ input[idx].relative_file_path = Path(<<"a", "/", "b", "/", "m", "o", "d", ".", "r", "s">>)
    /\ find_dto(api, <<<<"a">>, <<"b">>, <<"d">>>>) # <<>>
    /\ find_namespace(api, <<<<"a">>, <<"b">>, <<"m", "o", "d">>>>) = <<>>

\* C7: a chunk at d1/../dn/f.ext, f not an index name, is merged into the
\* namespace d1. .. .dn.f: after the merge that namespace exists, whether
\* or not its ancestors existed before, every declaration of the chunk is
\* found in it, its DTOs and RPCs end with those of the chunk in source
\* order, and the merge reported no error.
C7_PathNamespacesCreatedOnDemand ==
    (/\ pc = "clear"
     /\ input[idx].relative_file_path # NoPath
     /\ path_iter(input[idx].relative_file_path[1]) # <<>>
     /\ ~IsIndexFile(input[idx].relative_file_path[1]))
    => LET p == input[idx].relative_file_path[1]
           target == Append(Directories(p), WithoutExtension(LastComponent(p)))
       IN  /\ result = "none"
           /\ find_namespace(api, target) # <<>>
           /\ \A k \in 1..Len(children) :
                  find_child(api, Append(target, children[k].name)) # <<>>
           /\ IsSuffix(Declarations(Shape(children)),
                       Declarations(Shape(find_namespace(api, target)[1].children)))

\* C7 witness: a/b/c.rs was the first chunk, so a, a.b and a.b.c were all
\* created by its merge, and a.b.c.e is found.
C7_Witness ==
    /\ pc = "clear"
    /\ idx = 1
    /\ input[1].relative_file_path = Path(<<"a", "/", "b", "/", "c", ".", "r", "s">>)
    /\ find_dto(api, <<<<"a">>, <<"b">>, <<"c">>, <<"e">>>>) # <<>>

(***************************************************************************)
(* The chunk grammar applied to a text with a comment inserted between two *)
(* of its tokens.                                                          *)
(***************************************************************************)
\* the tokens of a text, joined by single spaces
RECURSIVE Join(_)
Join(tokens) ==
    IF tokens = <<>> THEN <<>>
    ELSE IF Len(tokens) = 1 THEN tokens[1]
    ELSE tokens[1] \o <<" ">> \o Join(Tail(tokens))

\* the tokens with the token c inserted after the first g of them
InsertAt(tokens, g, c) ==
    SubSeq(tokens, 1, g) \o <<c>> \o SubSeq(tokens, g + 1, Len(tokens))

\* a line comment with its newline, and a block comment
CommentTokens == {
    <<"/", "/", " ", "c", "\n">>,
    <<"/", "*", " ", "c", " ", "*", "/">> }

\* chunk texts that parse, as their grammar tokens
TokenPool == {
    \* struct S { a : i32 , b : user_type , }
    <<<<"s", "t", "r", "u", "c", "t">>, <<"S">>, <<"{">>, <<"a">>, <<":">>, <<"i", "3", "2">>,
      <<",">>, <<"b">>, <<":">>, <<"u", "s", "e", "r", "_", "t", "y", "p", "e">>, <<",">>,
      <<"}">>>>,
    \* pub fn f ( a : u8 , b : &str ) -> x::y { x }
    <<<<"p", "u", "b">>, <<"f", "n">>, <<"f">>, <<"(">>, <<"a">>, <<":">>, <<"u", "8">>,
      <<",">>, <<"b">>, <<":">>, <<"&", "s", "t", "r">>, <<")">>, <<"-", ">">>,
      <<"x", ":", ":", "y">>, <<"{">>, <<"x">>, <<"}">>>>,
    \* mod m { struct d { } mod n ; fn r ( ) { } }
    <<<<"m", "o", "d">>, <<"m">>, <<"{">>, <<"s", "t", "r", "u", "c", "t">>, <<"d">>, <<"{">>,
      <<"}">>, <<"m", "o", "d">>, <<"n">>, <<";">>, <<"f", "n">>, <<"r">>, <<"(">>, <<")">>,
      <<"{">>, <<"}">>, <<"}">>>>,
    \* mod m { }
    <<<<"m", "o", "d">>, <<"m">>, <<"{">>, <<"}">>>> }

\* the parser built by Rust::parse, applied to the text in data
ApplyParseChunk ==
    /\ rule = "none"
    /\ rule' = "chunk"
    /\ output' = ParseChunkData(config, data)
    /\ UNCHANGED <<config, data, input, idx, pc, namespace_stack, api, children, result, view, op, lookup_id, found, buffer, calls>>

\* input holds the chunk as written, data its text with one comment inserted
\* between two adjacent tokens
InitGrammar ==
    /\ config = CONFIG
    /\ \E tokens \in TokenPool, c \in CommentTokens :
       \E g \in 1..(Len(tokens) - 1) :
           /\ input = <<Chunk(NoPath, Join(tokens))>>
           /\ data = Join(InsertAt(tokens, g, c))
    /\ rule = "none"
    /\ output = Idle
    /\ idx = 1
    /\ pc = "rule"
    /\ namespace_stack = <<>>
    /\ api = Namespace(UNDEFINED_NAMESPACE, <<>>)
    /\ children = <<>>
    /\ result = "none"
    /\ NoView
    /\ NoOutput

SpecGrammar == InitGrammar /\ [][ApplyParseChunk]_vars

\* C8: when the chunk as written parses, the text with a line or block
\* comment inserted between any two adjacent tokens parses too, and to the
\* same declarations.
C8_CommentBetweenAnyTokensSameParse ==
    (rule = "chunk" /\ ParseChunkData(config, input[1].data).ok)
        => (output.ok /\ output.val = ParseChunkData(config, input[1].data).val)

(***************************************************************************)
(* dto applied to the text of a declaration.                               *)
(***************************************************************************)
\* type spellings with the Type each one declares under CONFIG
DeclaredTypes == {
    [text |-> <<"i", "3", "2">>, ty |-> Type("I32")],
    [text |-> <<"f", "3", "2">>, ty |-> Type("F32")],
    [text |-> <<"&", "s", "t", "r">>, ty |-> Type("String")],
    [text |-> <<"x", ":", ":", "y">>, ty |-> TypeApi(<<<<"x">>, <<"y">>>>)],
    [text |-> <<"u", "s", "e", "r", "_", "t", "y", "p", "e">>, ty |-> TypeUser(<<"u", "s", "e", "r">>)] }

FieldNames == {<<"a">>, <<"b">>}

\* a declared field or parameter: its name and its type spelling
DeclaredFields == [name : FieldNames, type : DeclaredTypes]

MaxFields == 2

FieldSeqs == UNION {[1..n -> DeclaredFields] : n \in 0..MaxFields}

\* "a: T, b: U": the fields as they are written, comma separated
RECURSIVE RenderFields(_)
RenderFields(fs) ==
    IF fs = <<>> THEN <<>>
    ELSE Head(fs).name \o <<":", " ">> \o Head(fs).type.text
         \o (IF Len(fs) > 1 THEN <<",", " ">> \o RenderFields(Tail(fs)) ELSE <<>>)

\* the Field values the declared fields stand for
FieldsOf(fs) == [k \in 1..Len(fs) |-> Field(fs[k].name, fs[k].type.ty)]

\* a DTO declaration: its fields, and whether a comma follows the last one
DtoDecls == {d \in [fields : FieldSeqs, trailing : BOOLEAN] : d.trailing => d.fields # <<>>}

\* "struct S { a: T, b: U }" or "struct S { a: T, b: U, }"
RenderDto(d) ==
    <<"s", "t", "r", "u", "c", "t", " ", "S", " ", "{">> \o <<" ">> \o RenderFields(d.fields)
    \o (IF d.trailing THEN <<",">> ELSE <<>>) \o <<" ", "}">>

\* dto(&CONFIG).parse(data)
ApplyDto ==
    /\ rule = "none"
    /\ rule' = "dto"
    /\ output' = ParseAll(data, dto(config, data, 1))
    /\ UNCHANGED <<config, data, input, idx, pc, namespace_stack, api, children, result, view, op, lookup_id, found, buffer, calls>>

InitDto == InitRule({CONFIG}, {RenderDto(d) : d \in DtoDecls})

SpecDto == InitDto /\ [][ApplyDto]_vars

\* C11: a DTO declaration parses to a Dto with the declared name and exactly
\* the declared fields, in order, each with its declared name and type; a
\* comma after the last field adds no field.
C11_DtoHasDeclaredFields ==
    \A d \in DtoDecls :
        (rule = "dto" /\ data = RenderDto(d))
            => (output.ok /\ output.val = Dto(<<"S">>, FieldsOf(d.fields)))

(***************************************************************************)
(* rpc applied to the text of a declaration.                               *)
(***************************************************************************)
\* bodies whose braces balance, comments set aside
BalancedBodies == {
    <<"{", "}">>,
    <<"{", " ", "x", " ", "}">>,
    <<"{", " ", "{", " ", "x", " ", "}", " ", "y", " ", "}">>,
    <<"{", " ", "/", "/", " ", "}", "\n", " ", "}">>,
    <<"{", " ", "/", "*", " ", "{", " ", "*", "/", " ", "x", " ", "}">>,
    <<"{", " ", "x", " ", "/", "*", " ", "}", " ", "*", "/", " ", "}">> }

\* the declared return type: none, or one of the type spellings
ReturnTypes == {<<>>} \cup {<<dt>> : dt \in DeclaredTypes}

\* an RPC declaration: its parameters, its return type if any, its body
RpcDecls == [params : FieldSeqs, return_type : ReturnTypes, body : BalancedBodies]

\* "fn f(a: T, b: U) -> R body" or "fn f(a: T, b: U) body"
RenderRpc(d) ==
    <<"f", "n", " ", "f", "(">> \o RenderFields(d.params) \o <<")">>
    \o (IF d.return_type = <<>> THEN <<>> ELSE <<" ", "-", ">", " ">> \o d.return_type[1].text)
    \o <<" ">> \o d.body

\* the Rpc the declaration stands for, whatever its body
RpcOf(d) ==
    Rpc(<<"f">>, FieldsOf(d.params),
        IF d.return_type = <<>> THEN <<>> ELSE <<d.return_type[1].ty>>)

\* rpc(&CONFIG).parse(data)
ApplyRpc ==
    /\ rule = "none"
    /\ rule' = "rpc"
    /\ output' = ParseAll(data, rpc(config, data, 1))
    /\ UNCHANGED <<config, data, input, idx, pc, namespace_stack, api, children, result, view, op, lookup_id, found, buffer, calls>>

InitRpc == InitRule({CONFIG}, {RenderRpc(d) : d \in RpcDecls})

SpecRpc == InitRpc /\ [][ApplyRpc]_vars

\* C12: an RPC declaration parses to an Rpc with exactly the declared
\* parameters in order and with a return type exactly when an arrow-marked
\* type is declared, the same Rpc for every balanced body.
C12_RpcHasDeclaredSignature ==
    \A d \in RpcDecls :
        (rule = "rpc" /\ data = RenderRpc(d)) => (output.ok /\ output.val = RpcOf(d))

(***************************************************************************)
(* Forward declarations that never get a body.                             *)
(***************************************************************************)
\* the text `mod n;`
ForwardDeclaration(n) == <<"m", "o", "d", " ">> \o n \o <<";">>

\* the chunk puts declarations below the root namespace n: its path starts
\* with n, or it has no path and declares n with a body
SuppliesBody(chunk, n) ==
    LET stack == ChunkComponents(chunk)
        decls == ParseChunkData(CONFIG, chunk.data).val
    IN  \/ stack # <<>> /\ stack[1] = n
        \/ /\ stack = <<>>
           /\ \E k \in 1..Len(decls) :
                  decls[k].kind = "Namespace" /\ decls[k].name = n /\ decls[k].children # <<>>

\* root-level forward declarations of the input that no chunk supplies a body for
BodilessForwardDeclarations ==
    {n \in {<<"x">>} :
        /\ \E k \in 1..Len(input) :
               input[k] = Chunk(NoPath, ForwardDeclaration(n))
        /\ \A k \in 1..Len(input) : ~SuppliesBody(input[k], n)}

\* C13: `mod x;` is never a parse error and parses to a namespace x without
\* children; when no chunk supplies a body, x is present and empty in the
\* finished tree.
C13_BodilessNamespaceStaysEmpty ==
    /\ (pc = "parse" /\ input[idx].data = ForwardDeclaration(<<"x">>))
           => ParseChunkData(config, input[idx].data).ok
    /\ (pc = "merge" /\ input[idx].data = ForwardDeclaration(<<"x">>))
           => children = <<Namespace(<<"x">>, <<>>)>>
    /\ (pc = "done" /\ result = "ok")
           => \A n \in BodilessForwardDeclarations :
                  find_namespace(api, <<n>>) = <<Namespace(n, <<>>)>>

C13_Witness ==
    /\ pc = "done"
    /\ result = "ok"
    /\ Len(input) = 2
    /\ input[1] = Chunk(NoPath, ForwardDeclaration(<<"x">>))
    /\ input[2].relative_file_path = Path(<<"a", "/", "b", "/", "c", ".", "r", "s">>)
    /\ BodilessForwardDeclarations = {<<"x">>}
    /\ find_namespace(api, <<<<"x">>>>) = <<Namespace(<<"x">>, <<>>)>>

(***************************************************************************)
(* The chunk grammar applied to a text made of whole pieces: imports,      *)
(* comments, declarations and stray text.                                  *)
(***************************************************************************)
ImportTexts == {<<"u", "s", "e", " ", "a", ":", ":", "b", ";">>}
CommentTexts == {<<"/", "/", " ", "c", "\n">>, <<"/", "*", " ", "c", " ", "*", "/">>}
DeclarationTexts == {<<"s", "t", "r", "u", "c", "t", " ", "d", " ", "{", "}">>, <<"f", "n", " ", "r", "(", ")", " ", "{", "}">>, <<"m", "o", "d", " ", "x", ";">>, <<"m", "o", "d", " ", "y", " ", "{", " ", "s", "t", "r", "u", "c", "t", " ", "e", " ", "{", "}", " ", "}">>}
StrayTexts == {<<"x">>, <<";">>, <<"}">>, <<"s", "t", "r", "u", "c", "t">>}

PieceTexts == ImportTexts \cup CommentTexts \cup DeclarationTexts \cup StrayTexts

MaxPieces == 3

\* the texts of the chunks, in order
ChunkTexts(chunks) == [k \in 1..Len(chunks) |-> chunks[k].data]

\* input holds the pieces of the text in order, data the text they make up
InitChunk ==
    /\ config = CONFIG
    /\ input \in UNION {[1..n -> {Chunk(NoPath, p) : p \in PieceTexts}] : n \in 0..MaxPieces}
    /\ data = Join(ChunkTexts(input))
    /\ rule = "none"
    /\ output = Idle
    /\ idx = 1
    /\ pc = "rule"
    /\ namespace_stack = <<>>
    /\ api = Namespace(UNDEFINED_NAMESPACE, <<>>)
    /\ children = <<>>
    /\ result = "none"
    /\ NoView
    /\ NoOutput

SpecChunk == InitChunk /\ [][ApplyParseChunk]_vars

\* imports and comments, then declarations, comments among and after the
\* declarations set aside
ImportsThenDeclarations(pieces) ==
    /\ \A k \in 1..Len(pieces) : pieces[k] \notin StrayTexts
    /\ \A k \in 1..Len(pieces) :
           pieces[k] \in ImportTexts
               => \A j \in 1..(k - 1) : pieces[j] \notin DeclarationTexts

\* C14: a chunk parses only if its text is imports and comments, then
\* declarations, then the end of the text: an import after a declaration or
\* stray text anywhere makes the parse fail, and a text of that form parses.
C14_ChunkParsesIffImportsThenDeclarations ==
    rule = "chunk" => (output.ok <=> ImportsThenDeclarations(ChunkTexts(input)))

C14_Witness ==
    /\ rule = "chunk"
    /\ Len(input) = 3
    /\ input[1].data \in DeclarationTexts
    /\ input[2].data \in CommentTexts
    /\ input[3].data \in ImportTexts
    /\ ~output.ok

(***************************************************************************)
(* The chunk grammar applied to a declaration with an annotation before    *)
(* it.                                                                     *)
(***************************************************************************)
AnnotationTexts == {<<"#", "[", "d", "e", "r", "i", "v", "e", "(", "D", "e", "b", "u", "g", ")", "]">>, <<"#", "[", "a", "]">>, <<"#", "[", "]">>}
DtoTexts == {<<"s", "t", "r", "u", "c", "t", " ", "d", " ", "{", "}">>, <<"p", "u", "b", " ", "s", "t", "r", "u", "c", "t", " ", "d", " ", "{", " ", "a", ":", " ", "i", "3", "2", " ", "}">>}
RpcTexts == {<<"f", "n", " ", "r", "(", ")", " ", "{", "}">>, <<"p", "u", "b", " ", "f", "n", " ", "r", "(", "a", ":", " ", "u", "8", ")", " ", "-", ">", " ", "x", " ", "{", " ", "}">>}
NamespaceTexts == {<<"m", "o", "d", " ", "x", ";">>, <<"m", "o", "d", " ", "y", " ", "{", " ", "s", "t", "r", "u", "c", "t", " ", "e", " ", "{", "}", " ", "}">>}

\* what may stand around the annotated declaration: nothing, a namespace
\* body, a declaration before it, a comment before it
Surroundings == {
    [before |-> <<>>, after |-> <<>>],
    [before |-> <<<<"m", "o", "d", " ", "m", " ", "{">>>>, after |-> <<<<"}">>>>],
    [before |-> <<<<"s", "t", "r", "u", "c", "t", " ", "e", " ", "{", "}">>>>, after |-> <<>>],
    [before |-> <<<<"/", "/", " ", "c", "\n">>>>, after |-> <<>>] }

\* input holds the pieces of the text in order, one of them an annotation
\* with a declaration right after it; data is the text they make up
InitAnnotated ==
    /\ config = CONFIG
    /\ \E a \in AnnotationTexts, d \in DtoTexts \cup RpcTexts \cup NamespaceTexts,
          c \in Surroundings :
           LET pieces == c.before \o <<a, d>> \o c.after
           IN  input = [k \in 1..Len(pieces) |-> Chunk(NoPath, pieces[k])]
    /\ data = Join(ChunkTexts(input))
    /\ rule = "none"
    /\ output = Idle
    /\ idx = 1
    /\ pc = "rule"
    /\ namespace_stack = <<>>
    /\ api = Namespace(UNDEFINED_NAMESPACE, <<>>)
    /\ children = <<>>
    /\ result = "none"
    /\ NoView
    /\ NoOutput

SpecAnnotated == InitAnnotated /\ [][ApplyParseChunk]_vars

NotAnnotation(p) == p \notin AnnotationTexts

\* the parse of the text without its annotation
Unannotated == ParseChunkData(config, Join(SelectSeq(ChunkTexts(input), NotAnnotation)))

\* the piece right after the annotation
AnnotatedDeclaration ==
    input[(CHOOSE k \in 1..Len(input) : input[k].data \in AnnotationTexts) + 1].data

\* C15 as claimed: an annotation before a declaration of any kind (DTO, RPC,
\* namespace) is discarded, the text parses to what it parses to without it.
C15_AnnotationDiscardedBeforeAnyDeclaration ==
    rule = "chunk" => (output.ok /\ output.val = Unannotated.val)

\* C15 as amended: an annotation before a DTO declaration is discarded, the
\* text parses to what it parses to without it; before an RPC or a namespace
\* declaration it makes the parse fail.
C15_AnnotationDiscardedBeforeDto ==
    rule = "chunk" =>
        /\ Unannotated.ok
        /\ AnnotatedDeclaration \in DtoTexts => (output.ok /\ output.val = Unannotated.val)
        /\ AnnotatedDeclaration \notin DtoTexts => ~output.ok

C15_Witness ==
    /\ rule = "chunk"
    /\ Len(input) = 4
    /\ input[2].data = <<"#", "[", "d", "e", "r", "i", "v", "e", "(", "D", "e", "b", "u", "g", ")", "]">>
    /\ input[3].data = <<"p", "u", "b", " ", "s", "t", "r", "u", "c", "t", " ", "d", " ", "{", " ", "a", ":", " ", "i", "3", "2", " ", "}">>
    /\ output.ok
    /\ output.val = <<Namespace(<<"m">>, <<Dto(<<"d">>, <<Field(<<"a">>, Type("I32"))>>)>>)>>

(***************************************************************************)
(* The view layer (apyxl/src/view/namespace.rs, sub_view.rs): a            *)
(* view::Namespace is a model namespace (target) seen through the          *)
(* registered namespace transforms (xforms.namespace), in their order of   *)
(* registration.  A wrapped entity is [target, xforms].                    *)
(***************************************************************************)
\* model::Enum, as a child of a namespace
Enum(n) ==
    [kind |-> "Enum", name |-> n, fields |-> <<>>, return_type |-> <<>>, children |-> <<>>]

find_enum(ns, id) == FindOfKind(ns, id, {"Enum"})

\* model::Namespace::namespaces / dtos / rpcs / enums: the children of one
\* kind, in their order
RECURSIVE OfKind(_, _)
OfKind(cs, kind) ==
    IF cs = <<>> THEN <<>>
    ELSE (IF Head(cs).kind = kind THEN <<Head(cs)>> ELSE <<>>) \o OfKind(Tail(cs), kind)

namespaces(ns) == OfKind(ns.children, "Namespace")
dtos(ns) == OfKind(ns.children, "Dto")
rpcs(ns) == OfKind(ns.children, "Rpc")
enums(ns) == OfKind(ns.children, "Enum")

\* an implementor of trait NamespaceTransform: name() puts `prefix` before
\* the name (the default, no change, is the empty prefix), and filter_<kind>
\* excludes the entities whose <<kind, name>> is in `rejects` (the default
\* excludes none)
NamespaceTransform(prefix, rejects) == [prefix |-> prefix, rejects |-> rejects]

x_name(x, name) == x.prefix \o name
x_filter_namespace(x, e) == <<"Namespace", e.name>> \notin x.rejects
x_filter_dto(x, e) == <<"Dto", e.name>> \notin x.rejects
x_filter_rpc(x, e) == <<"Rpc", e.name>> \notin x.rejects
x_filter_enum(x, e) == <<"Enum", e.name>> \notin x.rejects

\* Namespace::new, and Dto::new / Rpc::new / Enum::new alike
NamespaceNew(target, xforms) == [target |-> target, xforms |-> xforms]

\* NamespaceChild::new: the wrapper of the child's kind
NamespaceChildNew(target, xforms) == NamespaceNew(target, xforms)

\* Namespace::clone_with_new_transforms
clone_with_new_transforms(v, xforms) == [target |-> v.target, xforms |-> xforms]

\* the loop of Namespace::name as it would be if it ran over the transforms
\* from the last registered to the first
RECURSIVE NameFrom_last_first(_, _, _)
NameFrom_last_first(name, xforms, k) ==
    IF k > Len(xforms) THEN name
    ELSE x_name(xforms[k], NameFrom_last_first(name, xforms, k + 1))

\* for x in &self.xforms.namespace { x.name(&mut name) }, from transform k on
RECURSIVE NameFrom(_, _, _)
NameFrom(name, xforms, k) ==
    IF k > Len(xforms) THEN name
    ELSE NameFrom(x_name(xforms[k], name), xforms, k + 1)

\* Namespace::name
view_name(v) == NameFrom(v.target.name, v.xforms, 1)

\* Namespace::filter_namespace / filter_dto / filter_rpc / filter_enum
filter_namespace(v, e) == \A k \in 1..Len(v.xforms) : x_filter_namespace(v.xforms[k], e)
filter_dto(v, e) == \A k \in 1..Len(v.xforms) : x_filter_dto(v.xforms[k], e)
filter_rpc(v, e) == \A k \in 1..Len(v.xforms) : x_filter_rpc(v.xforms[k], e)
filter_enum(v, e) == \A k \in 1..Len(v.xforms) : x_filter_enum(v.xforms[k], e)

\* filter_child as it would be if it let every namespace through
filter_child_namespaces_unfiltered(v, child) ==
    CASE child.kind = "Dto" -> filter_dto(v, child)
      [] child.kind = "Rpc" -> filter_rpc(v, child)
      [] child.kind = "Enum" -> filter_enum(v, child)
      [] child.kind = "Namespace" -> TRUE

\* Namespace::filter_child
filter_child(v, child) ==
    CASE child.kind = "Dto" -> filter_dto(v, child)
      [] child.kind = "Rpc" -> filter_rpc(v, child)
      [] child.kind = "Enum" -> filter_enum(v, child)
      [] child.kind = "Namespace" -> filter_namespace(v, child)

\* the filter-and-wrap as it would be if it yielded the entities kept in
\* reverse
RECURSIVE FilterMap_reversed(_, _, _)
FilterMap_reversed(es, v, kind) ==
    IF es = <<>> THEN <<>>
    ELSE LET e == Head(es)
             keep == CASE kind = "Child" -> filter_child(v, e)
                       [] kind = "Namespace" -> filter_namespace(v, e)
                       [] kind = "Dto" -> filter_dto(v, e)
                       [] kind = "Rpc" -> filter_rpc(v, e)
                       [] kind = "Enum" -> filter_enum(v, e)
         IN  FilterMap_reversed(Tail(es), v, kind)
                 \o (IF keep THEN <<NamespaceChildNew(e, v.xforms)>> ELSE <<>>)

\* iter.filter(keep).map(|e| wrap(e, self.xforms)) over a sequence; an
\* Option is a sequence of length 0 or 1
RECURSIVE FilterMap(_, _, _)
FilterMap(es, v, kind) ==
    IF es = <<>> THEN <<>>
    ELSE LET e == Head(es)
             keep == CASE kind = "Child" -> filter_child(v, e)
                       [] kind = "Namespace" -> filter_namespace(v, e)
                       [] kind = "Dto" -> filter_dto(v, e)
                       [] kind = "Rpc" -> filter_rpc(v, e)
                       [] kind = "Enum" -> filter_enum(v, e)
         IN  (IF keep THEN <<NamespaceChildNew(e, v.xforms)>> ELSE <<>>)
                 \o FilterMap(Tail(es), v, kind)

\* Namespace::children
view_children(v) == FilterMap(v.target.children, v, "Child")

\* Namespace::find_child / find_namespace / find_dto / find_rpc / find_enum
view_find_child(v, id) == FilterMap(find_child(v.target, id), v, "Child")
view_find_namespace(v, id) == FilterMap(find_namespace(v.target, id), v, "Namespace")
view_find_dto(v, id) == FilterMap(find_dto(v.target, id), v, "Dto")
view_find_rpc(v, id) == FilterMap(find_rpc(v.target, id), v, "Rpc")
view_find_enum(v, id) == FilterMap(find_enum(v.target, id), v, "Enum")

\* Namespace::namespaces / dtos / rpcs / enums
view_namespaces(v) == FilterMap(namespaces(v.target), v, "Namespace")
view_dtos(v) == FilterMap(dtos(v.target), v, "Dto")
view_rpcs(v) == FilterMap(rpcs(v.target), v, "Rpc")
view_enums(v) == FilterMap(enums(v.target), v, "Enum")

(***************************************************************************)
(* The view operations, called on views of finished models.                *)
(***************************************************************************)
NS0 == <<"n", "s", "0">>
NS1 == <<"n", "s", "1">>
VISIBLE == <<"v", "i", "s", "i", "b", "l", "e">>
HIDDEN == <<"h", "i", "d", "d", "e", "n">>

\* finished models: the declarations of the tests of view/namespace.rs and
\* view/sub_view.rs
ModelPool == {
    \* mod ns0 { mod ns1 {} }
    Namespace(UNDEFINED_NAMESPACE, <<Namespace(NS0, <<Namespace(NS1, <<>>)>>)>>),
    \* struct ns0 {}  mod ns0 { <the eight declarations below> fn ns1() {} mod ns1 { struct visible {} } }
    Namespace(UNDEFINED_NAMESPACE,
        <<Dto(NS0, <<>>),
          Namespace(NS0,
            <<Namespace(VISIBLE, <<>>), Namespace(HIDDEN, <<Dto(VISIBLE, <<>>)>>),
              Dto(VISIBLE, <<>>), Dto(HIDDEN, <<>>),
              Rpc(VISIBLE, <<>>, <<>>), Rpc(HIDDEN, <<>>, <<>>),
              Enum(VISIBLE), Enum(HIDDEN),
              Rpc(NS1, <<>>, <<>>),
              Namespace(NS1, <<Dto(VISIBLE, <<>>)>>)>>)>>),
    \* mod visible {} mod hidden {} struct visible {} struct hidden {}
    \* fn visible() {} fn hidden() {} enum visible {} enum hidden {}
    Namespace(UNDEFINED_NAMESPACE,
        <<Namespace(VISIBLE, <<>>), Namespace(HIDDEN, <<>>),
          Dto(VISIBLE, <<>>), Dto(HIDDEN, <<>>),
          Rpc(VISIBLE, <<>>, <<>>), Rpc(HIDDEN, <<>>, <<>>),
          Enum(VISIBLE), Enum(HIDDEN)>>),
    \* struct hidden {} mod ns1 {} enum ns0 {} struct visible {} mod hidden {} struct ns0 {} fn hidden() {}
    Namespace(UNDEFINED_NAMESPACE,
        <<Dto(HIDDEN, <<>>), Namespace(NS1, <<>>), Enum(NS0), Dto(VISIBLE, <<>>),
          Namespace(HIDDEN, <<>>), Dto(NS0, <<>>), Rpc(HIDDEN, <<>>, <<>>)>>) }

Kinds == {"Dto", "Rpc", "Enum", "Namespace"}

\* the transforms registered: one that changes nothing, one that excludes
\* every entity named hidden, one that excludes only the DTO named visible,
\* one that excludes only the namespace ns0, and two that rename
TransformPool == {
    NamespaceTransform(<<>>, {}),
    NamespaceTransform(<<>>, {<<k, HIDDEN>> : k \in Kinds}),
    NamespaceTransform(<<>>, {<<"Dto", VISIBLE>>}),
    NamespaceTransform(<<>>, {<<"Namespace", NS0>>}),
    NamespaceTransform(<<"a", "_">>, {}),
    NamespaceTransform(<<"b", "_">>, {}) }

MaxTransforms == 2

Transforms == UNION {[1..n -> TransformPool] : n \in 0..MaxTransforms}

MaxIdLen == 2

\* the ids looked up: every path of at most MaxIdLen of the names in use
EntityIds == UNION {[1..n -> {NS0, NS1, VISIBLE, HIDDEN}] : n \in 1..MaxIdLen}

\* model.view().with_namespace_transform(..)...: the root of a model seen
\* through some transforms
InitView ==
    /\ api \in ModelPool
    /\ \E xs \in Transforms : view = NamespaceNew(api, xs)
    /\ op = "none"
    /\ lookup_id = <<>>
    /\ found = <<>>
    /\ pc = "view"
    /\ config = CONFIG
    /\ data = <<>>
    /\ rule = "none"
    /\ output = Idle
    /\ input = <<>>
    /\ idx = 1
    /\ namespace_stack = <<>>
    /\ children = <<>>
    /\ result = "ok"
    /\ NoOutput

\* no operation has been called on the view yet.  An operation leaves the
\* view and the model as they are, so the calls are followed from the view
\* as it was made, one at a time.
Fresh == pc = "view" /\ op \in {"none", "unwrap", "sub_view"}

\* a call of view operation o with id p that returned r
Returns(o, p, r) ==
    /\ Fresh
    /\ op' = o
    /\ lookup_id' = p
    /\ found' = r
    /\ UNCHANGED <<config, data, rule, output, input, idx, pc, namespace_stack, api, children, result, view, buffer, calls>>

FindChild == \E p \in EntityIds : Returns("find_child", p, view_find_child(view, p))
FindNamespace == \E p \in EntityIds : Returns("find_namespace", p, view_find_namespace(view, p))
FindDto == \E p \in EntityIds : Returns("find_dto", p, view_find_dto(view, p))
FindRpc == \E p \in EntityIds : Returns("find_rpc", p, view_find_rpc(view, p))
FindEnum == \E p \in EntityIds : Returns("find_enum", p, view_find_enum(view, p))
ListChildren == Returns("children", <<>>, view_children(view))
ListNamespaces == Returns("namespaces", <<>>, view_namespaces(view))
ListDtos == Returns("dtos", <<>>, view_dtos(view))
ListRpcs == Returns("rpcs", <<>>, view_rpcs(view))
ListEnums == Returns("enums", <<>>, view_enums(view))
Name == Returns("name", <<>>, view_name(view))

\* root.find_namespace(&id).unwrap(): go on with the namespace that was found
Unwrap ==
    /\ pc = "view"
    /\ op = "find_namespace"
    /\ found # <<>>
    /\ view' = found[1]
    /\ op' = "unwrap"
    /\ found' = <<>>
    /\ UNCHANGED <<config, data, rule, output, input, idx, pc, namespace_stack, api, children, result, lookup_id, buffer, calls>>

\* SubView::new(namespace, xforms).namespace(): the same model namespace
\* seen through the sub-view's own transforms
SubViewNamespace ==
    /\ Fresh
    /\ op # "sub_view"
    /\ \E xs \in Transforms : view' = NamespaceNew(view.target, xs)
    /\ op' = "sub_view"
    /\ found' = <<>>
    /\ lookup_id' = <<>>
    /\ UNCHANGED <<config, data, rule, output, input, idx, pc, namespace_stack, api, children, result, buffer, calls>>

NextView ==
    \/ FindChild
    \/ FindNamespace
    \/ FindDto
    \/ FindRpc
    \/ FindEnum
    \/ ListChildren
    \/ ListNamespaces
    \/ ListDtos
    \/ ListRpcs
    \/ ListEnums
    \/ Name
    \/ Unwrap
    \/ SubViewNamespace

SpecView == InitView /\ [][NextView]_vars

(***************************************************************************)
(* Lookup by EntityId.                                                     *)
(***************************************************************************)
\* the ways to spell id below ns, one child index per segment: every
\* segment names the child taken, and every child taken before the last is
\* a Namespace
RECURSIVE Walks(_, _)
Walks(ns, id) ==
    IF Len(id) = 1
    THEN {<<k>> : k \in {j \in 1..Len(ns.children) : ns.children[j].name = id[1]}}
    ELSE UNION {{<<k>> \o q : q \in Walks(ns.children[k], Tail(id))} :
                k \in {j \in 1..Len(ns.children) :
                          /\ ns.children[j].name = id[1]
                          /\ ns.children[j].kind = "Namespace"}}

\* the kinds a lookup operation asks for
FindOps == {"find_child", "find_namespace", "find_dto", "find_rpc", "find_enum"}
KindsAsked(o) ==
    CASE o = "find_child" -> Kinds
      [] o = "find_namespace" -> {"Namespace"}
      [] o = "find_dto" -> {"Dto"}
      [] o = "find_rpc" -> {"Rpc"}
      [] o = "find_enum" -> {"Enum"}

\* the entities of the kind asked for that lie at path id below ns
EntitiesAt(ns, id, o) ==
    {e \in {NodeAt(ns, ip) : ip \in Walks(ns, id)} : e.kind \in KindsAsked(o)}

\* C16: a lookup of id P below namespace N returns an entity only when P,
\* segment by segment, leads through child Namespaces to a child of the
\* requested kind, and then it returns the entity at P (so never one that a
\* prefix of P reaches); when no such entity lies at P it returns not-found;
\* and with no transform registered it finds the entity whenever one lies at P.
C16_LookupFollowsEverySegment ==
    (pc = "view" /\ op \in FindOps) =>
        /\ Len(found) <= 1
        /\ found # <<>> => found[1].target \in EntitiesAt(view.target, lookup_id, op)
        /\ EntitiesAt(view.target, lookup_id, op) = {} => found = <<>>
        /\ (view.xforms = <<>> /\ EntitiesAt(view.target, lookup_id, op) # {}) => found # <<>>

\* C16 witness: below the root, which has a DTO ns0 before its namespace
\* ns0, find_dto of ns0.visible returned the DTO visible of namespace ns0.
C16_Witness ==
    /\ op = "find_dto"
    /\ lookup_id = <<NS0, VISIBLE>>
    /\ view.target = api
    /\ api.children[1] = Dto(NS0, <<>>)
    /\ found = <<NamespaceNew(Dto(VISIBLE, <<>>), view.xforms)>>

(***************************************************************************)
(* Enum declarations handed to Rust::parse.                                *)
(***************************************************************************)
\* chunks that declare an enum, each with the EntityId the enum would have
EnumChunks == {
    \* (no path): enum visible {}
    [chunk |-> Chunk(NoPath, <<"e", "n", "u", "m", " ", "v", "i", "s", "i", "b", "l", "e", " ", "{", "}">>), id |-> <<VISIBLE>>],
    \* (no path): mod ns0 { enum visible {} enum hidden {} }
    [chunk |-> Chunk(NoPath, <<"m", "o", "d", " ", "n", "s", "0", " ", "{", " ", "e", "n", "u", "m", " ", "v", "i", "s", "i", "b", "l", "e", " ", "{", "}", " ", "e", "n", "u", "m", " ", "h", "i", "d", "d", "e", "n", " ", "{", "}", " ", "}">>),
     id |-> <<NS0, VISIBLE>>],
    \* ns0.rs: pub enum hidden { A, B }
    [chunk |-> Chunk(Path(<<"n", "s", "0", ".", "r", "s">>), <<"p", "u", "b", " ", "e", "n", "u", "m", " ", "h", "i", "d", "d", "e", "n", " ", "{", " ", "A", ",", " ", "B", " ", "}">>), id |-> <<NS0, HIDDEN>>],
    \* ns0/ns1/mod.rs: struct visible {} enum visible { A = 1 }
    [chunk |-> Chunk(Path(<<"n", "s", "0", "/", "n", "s", "1", "/", "m", "o", "d", ".", "r", "s">>), <<"s", "t", "r", "u", "c", "t", " ", "v", "i", "s", "i", "b", "l", "e", " ", "{", "}", " ", "e", "n", "u", "m", " ", "v", "i", "s", "i", "b", "l", "e", " ", "{", " ", "A", " ", "=", " ", "1", " ", "}">>),
     id |-> <<NS0, NS1, VISIBLE>>] }

\* chunks without an enum, all of which match the grammar
PlainChunks == {
    Chunk(NoPath, <<"m", "o", "d", " ", "n", "s", "0", " ", "{", " ", "s", "t", "r", "u", "c", "t", " ", "v", "i", "s", "i", "b", "l", "e", " ", "{", "}", " ", "}">>),
    Chunk(Path(<<"n", "s", "0", "/", "n", "s", "1", ".", "r", "s">>), <<"f", "n", " ", "h", "i", "d", "d", "e", "n", "(", ")", " ", "{", "}">>),
    Chunk(Path(<<"n", "s", "0", "/", "l", "i", "b", ".", "r", "s">>), <<"s", "t", "r", "u", "c", "t", " ", "h", "i", "d", "d", "e", "n", " ", "{", "}">>) }

MaxEnumChunks == 2

EnumInputs ==
    UNION {[1..n -> {ec.chunk : ec \in EnumChunks} \cup PlainChunks] : n \in 1..MaxEnumChunks}

InitEnum ==
    /\ config = CONFIG
    /\ input \in EnumInputs
    /\ idx = 1
    /\ pc = "enter"
    /\ namespace_stack = <<>>
    /\ api = Namespace(UNDEFINED_NAMESPACE, <<>>)
    /\ children = <<>>
    /\ result = "none"
    /\ NoView
    /\ NoOutput
    /\ data = <<>>
    /\ rule = "none"
    /\ output = Idle

SpecEnum == InitEnum /\ [][Next]_vars

\* C17: when Rust::parse has finished on chunks one of which declares an
\* enum, it has accepted them and find_enum with the enum's EntityId gives
\* an Enum of that name in the finished model.
C17_EnumDeclarationBecomesEnumChild ==
    pc = "done" =>
        \A ec \in EnumChunks :
            (\E k \in 1..Len(input) : input[k] = ec.chunk) =>
                /\ result = "ok"
                /\ find_enum(api, ec.id) = <<Enum(ec.id[Len(ec.id)])>>

(***************************************************************************)
(* Lookups through a view.                                                 *)
(***************************************************************************)
\* the lookup of the model that a lookup operation of the view starts from
ModelFind(o, ns, id) == FindOfKind(ns, id, KindsAsked(o))

\* every transform registered on the view lets entity e through: none
\* excludes e's name for e's kind
Accepted(xforms, e) ==
    \A k \in 1..Len(xforms) : <<e.kind, e.name>> \notin xforms[k].rejects

\* C18: find_child / find_namespace / find_dto / find_rpc / find_enum of a
\* view return an entity exactly when the model's lookup of that kind finds
\* one for the id and every registered transform's filter for the kind of
\* the entity found accepts it; what is returned wraps that model entity,
\* with the view's transforms.
C18_ViewFindIsFilteredModelFind ==
    (pc = "view" /\ op \in FindOps) =>
        LET m == ModelFind(op, view.target, lookup_id)
        IN  /\ found # <<>> <=> (m # <<>> /\ Accepted(view.xforms, m[1]))
            /\ found # <<>> => found = <<[target |-> m[1], xforms |-> view.xforms]>>

\* C18 witness: with two transforms registered, one of them excluding every
\* entity named hidden, find_child of ns0.hidden returned nothing although the
\* model has the child, a namespace.
C18_Witness ==
    /\ op = "find_child"
    /\ lookup_id = <<NS0, HIDDEN>>
    /\ Len(view.xforms) = 2
    /\ found = <<>>
    /\ find_child(view.target, lookup_id) # <<>>
    /\ find_child(view.target, lookup_id)[1].kind = "Namespace"

(***************************************************************************)
(* The children a view yields.                                             *)
(***************************************************************************)
ListOps == {"children", "namespaces", "dtos", "rpcs", "enums"}
KindsListed(o) ==
    CASE o = "children" -> Kinds
      [] o = "namespaces" -> {"Namespace"}
      [] o = "dtos" -> {"Dto"}
      [] o = "rpcs" -> {"Rpc"}
      [] o = "enums" -> {"Enum"}

\* the positions, among the children of model namespace ns, of those that
\* operation o of a view with transforms xforms is to yield
Yielded(o, ns, xforms) ==
    {k \in 1..Len(ns.children) :
        /\ ns.children[k].kind \in KindsListed(o)
        /\ Accepted(xforms, ns.children[k])}

\* the positions of set ks, ascending
RECURSIVE Ascending(_)
Ascending(ks) ==
    IF ks = {} THEN <<>>
    ELSE LET k == CHOOSE j \in ks : \A i \in ks : j <= i
         IN  <<k>> \o Ascending(ks \ {k})

\* C19: children(), namespaces(), dtos(), rpcs() and enums() of a view (the
\* root's, a namespace reached in it, or a sub-view with its own transforms)
\* yield exactly the children of the underlying model namespace, of the
\* respective kind, that every registered filter accepts, each once, in the
\* order they have in the model.
C19_ViewListsAcceptedChildrenInOrder ==
    (pc = "view" /\ op \in ListOps) =>
        LET at == Ascending(Yielded(op, view.target, view.xforms))
        IN  /\ Len(found) = Len(at)
            /\ \A k \in 1..Len(at) :
                   found[k] = [target |-> view.target.children[at[k]], xforms |-> view.xforms]

\* C19 witness: children() on a view with two transforms of a namespace
\* below the root that has children of all four kinds yielded at least two
\* children, and in the model an excluded child stands between the first
\* two yielded.
C19_Witness ==
    /\ op = "children"
    /\ Len(view.xforms) = 2
    /\ view.target # api
    /\ Len(found) >= 2
    /\ {view.target.children[k].kind : k \in 1..Len(view.target.children)} = Kinds
    /\ \E i, j, k \in 1..Len(view.target.children) :
           /\ i < j /\ j < k
           /\ view.target.children[i] = found[1].target
           /\ ~Accepted(view.xforms, view.target.children[j])
           /\ view.target.children[k] = found[2].target

(***************************************************************************)
(* The name a view reports.                                                *)
(***************************************************************************)
\* the prefixes of the transforms k..Len(xforms), the last registered first
RECURSIVE PrefixesLastFirst(_, _)
PrefixesLastFirst(xforms, k) ==
    IF k > Len(xforms) THEN <<>>
    ELSE PrefixesLastFirst(xforms, k + 1) \o xforms[k].prefix

\* C20: the name a view reports for a namespace (the root, or a namespace
\* reached through find_namespace) is the model namespace's name after the
\* rename of every registered transform, applied in the order of
\* registration (the rename registered last is the outermost), and the
\* namespace viewed is still a namespace of the model, its name as stored.
C20_NameIsRenamedInRegistrationOrder ==
    (pc = "view" /\ op = "name") =>
        /\ found = PrefixesLastFirst(view.xforms, 1) \o view.target.name
        /\ \E ip \in IndexPaths(api) : NodeAt(api, ip) = view.target

\* C20 witness: name() was called on a namespace reached through
\* find_namespace, on a view with two different renaming transforms.
C20_Witness ==
    /\ op = "name"
    /\ view.target # api
    /\ Len(view.xforms) = 2
    /\ view.xforms[1].prefix # <<>>
    /\ view.xforms[2].prefix # <<>>
    /\ view.xforms[1].prefix # view.xforms[2].prefix
    /\ found # view.target.name

(***************************************************************************)
(* output::Buffer (apyxl/src/output/buffer.rs): a String that the Output   *)
(* calls append to.                                                        *)
(***************************************************************************)
\* Buffer::default()
BufferDefault == [data |-> <<>>]

\* impl ToString for Buffer
to_string(b) == b.data

\* Buffer::write_str as it would be if it kept only the last text written
write_str_replaces(b, s) == [b EXCEPT !.data = s]

\* self.data.push_str(data)
write_str(b, s) == [b EXCEPT !.data = @ \o s]

\* self.data.push(data)
write(b, c) == [b EXCEPT !.data = Append(@, c)]

\* self.data.push('\n')
newline(b) == [b EXCEPT !.data = Append(@, "\n")]

\* the texts and characters handed to the buffer (those of its tests, the
\* empty text, and a text with a newline of its own)
WrittenTexts == {<<>>, <<"a", "s", "d", "f">>, <<"a", "b", "c">>, <<"e", "f", "g">>, <<"a", "\n", "b">>}
WrittenChars == {":", "d", "\n"}

MaxCalls == 4

InitBuffer ==
    /\ buffer = BufferDefault
    /\ calls = <<>>
    /\ pc = "output"
    /\ config = CONFIG
    /\ data = <<>>
    /\ rule = "none"
    /\ output = Idle
    /\ input = <<>>
    /\ idx = 1
    /\ namespace_stack = <<>>
    /\ api = Namespace(UNDEFINED_NAMESPACE, <<>>)
    /\ children = <<>>
    /\ result = "none"
    /\ NoView

\* one call on the buffer: it leaves b as the buffer and returns ret
Called(o, arg, b, ret) ==
    /\ pc = "output"
    /\ Len(calls) < MaxCalls
    /\ buffer' = b
    /\ calls' = Append(calls, [op |-> o, arg |-> arg, ret |-> ret])
    /\ UNCHANGED <<config, data, rule, output, input, idx, pc, namespace_stack, api, children, result, view, op, lookup_id, found>>

WriteStr == \E s \in WrittenTexts : Called("write_str", s, write_str(buffer, s), "Ok")
Write == \E c \in WrittenChars : Called("write", c, write(buffer, c), "Ok")
Newline == Called("newline", <<>>, newline(buffer), "Ok")

\* start_chunk and end_chunk are todo!(): the call panics
StartOrEndChunk ==
    /\ pc = "output"
    /\ Len(calls) < MaxCalls
    /\ pc' = "panic"
    /\ UNCHANGED <<config, data, rule, output, input, idx, namespace_stack, api, children, result, view, op, lookup_id, found, buffer, calls>>

NextBuffer ==
    \/ WriteStr
    \/ Write
    \/ Newline
    \/ StartOrEndChunk

SpecBuffer == InitBuffer /\ [][NextBuffer]_vars

\* what one call was asked to write
WrittenBy(c) ==
    CASE c.op = "write_str" -> c.arg
      [] c.op = "write" -> <<c.arg>>
      [] c.op = "newline" -> <<"\n">>

\* everything the calls cs were asked to write, in call order
RECURSIVE Everything(_)
Everything(cs) ==
    IF cs = <<>> THEN <<>> ELSE WrittenBy(Head(cs)) \o Everything(Tail(cs))

\* C21: after any sequence of write_str, write and newline calls on a
\* Buffer, to_string is the concatenation of everything written, in call
\* order, a newline counting as one '\n'; every call returned Ok; and what
\* had been written before each call is still the beginning of the data.
C21_BufferHoldsEverythingWritten ==
    pc \in {"output", "panic"} =>
        /\ to_string(buffer) = Everything(calls)
        /\ \A k \in 1..Len(calls) :
               /\ calls[k].ret = "Ok"
               /\ SubSeq(to_string(buffer), 1, Len(Everything(SubSeq(calls, 1, k - 1))))
                      = Everything(SubSeq(calls, 1, k - 1))

\* C21 witness: write_str("abc"), write('d'), write_str("efg") and newline
\* were called in this order.
C21_Witness ==
    /\ Len(calls) = 4
    /\ calls[1].op = "write_str" /\ calls[1].arg = <<"a", "b", "c">>
    /\ calls[2].op = "write" /\ calls[2].arg = "d"
    /\ calls[3].op = "write_str" /\ calls[3].arg = <<"e", "f", "g">>
    /\ calls[4].op = "newline"
    /\ to_string(buffer) = <<"a", "b", "c", "d", "e", "f", "g", "\n">>

(***************************************************************************)
(* The visibility keyword before a declaration.                            *)
(***************************************************************************)
\* namespace(&CONFIG).parse(data)
ApplyNamespace ==
    /\ rule = "none"
    /\ rule' = "namespace"
    /\ output' = ParseAll(data, namespace(config, data, 1))
    /\ UNCHANGED <<config, data, input, idx, pc, namespace_stack, api, children, result, view, op, lookup_id, found, buffer, calls>>

\* what stands before `pub`, and between `pub` and the declaration keyword
Leads == {<<>>, <<"\n", " ", " ", " ", " ">>}
WhitespaceSeparators == {<<" ">>, <<" ", " ">>, <<"\n">>, <<"\t", " ">>, <<"\f">>, <<"U+00A0">>}
NoWhitespaceSeparators == {<<>>, <<"/", "*", "*", "/">>, <<"/", "*", " ", "*", "/", " ">>}

\* declarations without a visibility keyword, by the rule that reads them
PlainDeclarations == {
    [rule |-> "dto", text |-> <<"s", "t", "r", "u", "c", "t", " ", "d", " ", "{", "}">>],
    [rule |-> "dto", text |-> <<"s", "t", "r", "u", "c", "t", " ", "d", " ", "{", " ", "a", ":", " ", "i", "3", "2", " ", "}">>],
    [rule |-> "rpc", text |-> <<"f", "n", " ", "r", "p", "c", "_", "n", "a", "m", "e", "(", ")", " ", "{", "}">>],
    [rule |-> "rpc", text |-> <<"f", "n", " ", "r", "(", "a", ":", " ", "u", "8", ")", " ", "-", ">", " ", "x", " ", "{", " ", "}">>],
    [rule |-> "namespace", text |-> <<"m", "o", "d", " ", "x", ";">>],
    [rule |-> "namespace", text |-> <<"m", "o", "d", " ", "y", " ", "{", " ", "s", "t", "r", "u", "c", "t", " ", "e", " ", "{", "}", " ", "}">>] }

\* lead `pub` separator declaration
WithVisibility(seps) ==
    {l \o <<"p", "u", "b">> \o sep \o d.text : l \in Leads, sep \in seps, d \in PlainDeclarations}

SmushedTexts == WithVisibility(NoWhitespaceSeparators)
SeparatedTexts == WithVisibility(WhitespaceSeparators)

InitVisibility == InitRule({CONFIG}, SmushedTexts \cup SeparatedTexts)

SpecVisibility ==
    InitVisibility /\ [][ApplyDto \/ ApplyRpc \/ ApplyNamespace \/ ApplyParseChunk]_vars

\* C22: a declaration whose `pub` is not followed by at least one whitespace
\* character before the declaration keyword (`pubfn name() {}`) is a parse
\* error, for the RPC, the DTO and the namespace rule alike, and for a chunk
\* made of it.
C22_SmushedVisibilityIsAnError ==
    (rule \in {"dto", "rpc", "namespace", "chunk"} /\ data \in SmushedTexts) => ~output.ok

\* C22 witness: the rpc rule was applied to `pubfn rpc_name() {}` and failed.
C22_Witness ==
    /\ rule = "rpc"
    /\ data = <<"\n", " ", " ", " ", " ", "p", "u", "b", "f", "n", " ", "r", "p", "c", "_", "n", "a", "m", "e", "(", ")", " ", "{", "}">>
    /\ ~output.ok

(***************************************************************************)
(* Qualified type names.                                                   *)
(***************************************************************************)
\* entity_id().parse(data)
ApplyEntityId ==
    /\ rule = "none"
    /\ rule' = "entity_id"
    /\ output' = ParseAll(data, entity_id(data, 1))
    /\ UNCHANGED <<config, data, input, idx, pc, namespace_stack, api, children, result, view, op, lookup_id, found, buffer, calls>>

IdAlphabet == {"a", "Z", "7", "_", "&", "<", ">", ":", "-"}
MaxIdTextLen == 4

\* every text of at most MaxIdTextLen characters, and the names of the tests
IdTexts ==
    UNION {[1..n -> IdAlphabet] : n \in 0..MaxIdTextLen}
        \cup {<<"a", ":", ":", "b", ":", ":", "c">>, <<"&", "T", "y", "p", "e">>, <<"_", "t", "y", "p", "e">>, <<"a", ":", ":", "&", "b">>, <<"a", ":", ":", "<", "b">>}

InitEntityId == InitRule({CONFIG}, IdTexts)

SpecEntityId == InitEntityId /\ [][ApplyEntityId]_vars

\* the segments written one after the other with "::" between them
RECURSIVE Qualified(_)
Qualified(path) ==
    IF Len(path) = 1 THEN path[1]
    ELSE path[1] \o <<":", ":">> \o Qualified(Tail(path))

\* letters, digits and underscore, and '&' as the first character only
SegmentAsClaimed(seg) ==
    /\ seg # <<>>
    /\ \A k \in 1..Len(seg) :
           \/ IsAsciiAlphanumeric(seg[k])
           \/ seg[k] = "_"
           \/ (k = 1 /\ seg[k] = "&")

\* C23: when a text parses as a qualified type name, the EntityId's path is
\* the list of its segments in written order, and every segment consists of
\* letters, digits and underscore only, but for a '&' that may be its first
\* character: a text with any other character is not accepted.
C23_TypeNameCharacters ==
    (rule = "entity_id" /\ output.ok) =>
        /\ output.val # <<>>
        /\ Qualified(output.val) = data
        /\ \A k \in 1..Len(output.val) : SegmentAsClaimed(output.val[k])

(***************************************************************************)
(* The nesting stack between chunks.                                       *)
(***************************************************************************)
\* the namespace a chunk's own path stands for, read off the path text:
\* its directories, and its file name without extension unless the file is
\* mod.rs or lib.rs; the root for a chunk without a path
OwnNamespace(chunk) ==
    IF chunk.relative_file_path = <<>> THEN <<>>
    ELSE LET p == chunk.relative_file_path[1]
         IN  IF IsIndexFile(p) THEN Directories(p)
             ELSE Append(Directories(p), WithoutExtension(LastComponent(p)))

\* C24: when the components of a chunk's path are about to be pushed the
\* builder's nesting stack is empty, and when the chunk is parsed and merged
\* the stack is the namespace of the chunk's own path, whatever the chunks
\* before it were: the root for a chunk without a path.
C24_StackIsTheChunksOwnPath ==
    /\ pc = "enter" => namespace_stack = <<>>
    /\ pc \in {"parse", "merge", "clear"} => namespace_stack = OwnNamespace(input[idx])

\* C24 witness: after a chunk of a/b/... has been merged, a chunk without a
\* path is about to be merged, and the stack is empty.
C24_Witness ==
    /\ idx = 2
    /\ pc = "merge"
    /\ Len(OwnNamespace(input[1])) = 2
    /\ input[2].relative_file_path = <<>>
    /\ namespace_stack = <<>>

(***************************************************************************)
(* The order of the type alternatives.                                     *)
(***************************************************************************)
\* the built-in keywords a text begins with, and their by-reference,
\* &str and &[u8] spellings
KeywordsAtStart(s) == {v \in ValueSpellings : IsPrefix(v.lit, s)}

\* C25: the alternatives of a type are tried in the order built-in keywords,
\* configured user-type rules, qualified name, and the first that matches
\* decides.  A text that is a built-in keyword gives that keyword's variant
\* even when a user-type rule has the same pattern, so such a rule is
\* never selected; a text equal to the pattern of a configured user-type
\* rule (a pattern that is not itself a built-in keyword) gives the
\* user-defined variant with that rule's display name and not an API
\* reference; and an API reference is given only to a text that no
\* built-in keyword and no user-type rule matches.
C25_TypeAlternativesInOrder ==
    rule = "ty" =>
        /\ \A v \in ValueSpellings :
               data = v.lit => output = Ok(Len(data) + 1, Type(v.ty))
        /\ \A k \in 1..Len(config) :
               (data = config[k].parse /\ \A v \in ValueSpellings : data # v.lit)
                   => output = Ok(Len(data) + 1, TypeUser(config[k].name))
        /\ (output.ok /\ output.val.ty = "User") =>
               \E k \in MatchingRules(config, data) :
                   /\ output.val.name = config[k].name
                   /\ \A v \in ValueSpellings : config[k].parse # v.lit
        /\ (output.ok /\ output.val.ty = "Api") =>
               (KeywordsAtStart(data) = {} /\ MatchingRules(config, data) = {})

(***************************************************************************)
(* How far the user-type parser reads.                                     *)
(***************************************************************************)
\* C26: when a user-type rule matches, user_ty consumes exactly the
\* characters of that rule's pattern and nothing after it, so that the
\* character after the pattern (the ',' or ')' of a field list) is left
\* for the enclosing rule: user_ty(&config).parse accepts a text that a
\* rule matches exactly when the text is the pattern of the earliest such
\* rule.
C26_UserTyConsumesExactlyThePattern ==
    (rule = "user_ty" /\ MatchingRules(config, data) # {}) =>
        (output.ok <=> data = config[EarliestMatch(config, data)].parse)

(***************************************************************************)
(* The nesting stack when parse returns.                                   *)
(***************************************************************************)
\* C27: whenever parse has returned, with Ok or with a grammar error, the
\* builder's nesting stack is empty: the components pushed for a chunk that
\* failed to parse are not left on it.
C27_StackEmptyWhenParseReturns ==
    pc = "done" => namespace_stack = <<>>

(***************************************************************************)
(* Entities below an excluded namespace.                                   *)
(***************************************************************************)
\* the namespaces that id passes through below ns before its last segment:
\* the namespace of every proper prefix of id that names one
PassedThrough(ns, id) ==
    {find_namespace(ns, SubSeq(id, 1, k))[1] :
        k \in {j \in 1..(Len(id) - 1) : find_namespace(ns, SubSeq(id, 1, j)) # <<>>}}

\* C28: through a view no entity inside a namespace that a namespace filter
\* excludes can be reached: a lookup with an id of several segments, one of
\* whose segments before the last names an excluded namespace, returns
\* not-found.
C28_NothingFoundBelowExcludedNamespace ==
    (pc = "view" /\ op \in FindOps) =>
        ((\E n \in PassedThrough(view.target, lookup_id) : ~Accepted(view.xforms, n))
            => found = <<>>)

(***************************************************************************)
(* Identifiers that begin with a built-in type keyword.                    *)
(***************************************************************************)
\* what is written after the keyword
KeywordSuffixes == {<<"x">>, <<"_", "w", "r", "a", "p", "p", "e", "r">>, <<"e", "a", "n">>, <<"y">>, <<"0">>}

\* identifiers that begin with a built-in keyword and go on: u8x, boolean,
\* Stringy, i32_wrapper, ...
KeywordPrefixed ==
    {v.lit \o suf : v \in {w \in ValueSpellings : w.ty # "Bytes"}, suf \in KeywordSuffixes}

\* a DTO with one field, and an RPC with one parameter, of type t
DtoWithFieldOf(t) == <<"s", "t", "r", "u", "c", "t", " ", "S", " ", "{", " ", "a", ":", " ">> \o t \o <<" ", "}">>
RpcWithParamOf(t) == <<"f", "n", " ", "f", "(", "a", ":", " ">> \o t \o <<")", " ", "{", "}">>

InitKeywordPrefixed ==
    InitRule({CONFIG},
             KeywordPrefixed
                 \cup {DtoWithFieldOf(t) : t \in KeywordPrefixed}
                 \cup {RpcWithParamOf(t) : t \in KeywordPrefixed})

SpecKeywordPrefixed == InitKeywordPrefixed /\ [][ApplyTy \/ ApplyDto \/ ApplyRpc]_vars

\* C29: a type written as an identifier that merely begins with a built-in
\* keyword is read as a whole, as the API reference to that identifier, and
\* never as the built-in type with the rest left over: the type rule ends
\* after the identifier, and a DTO field and an RPC parameter of such a type
\* parse, with that API reference as the type.
C29_KeywordPrefixedIdentifierIsApiReference ==
    \A t \in KeywordPrefixed :
        /\ (rule = "ty" /\ data = t) => output = Ok(Len(t) + 1, TypeApi(<<t>>))
        /\ (rule = "dto" /\ data = DtoWithFieldOf(t)) =>
               (output.ok /\ output.val = Dto(<<"S">>, <<Field(<<"a">>, TypeApi(<<t>>))>>))
        /\ (rule = "rpc" /\ data = RpcWithParamOf(t)) =>
               (output.ok /\ output.val = Rpc(<<"f">>, <<Field(<<"a">>, TypeApi(<<t>>))>>, <<>>))

====
